---- MODULE Spec2Model ----
(***************************************************************************)
(* The wallets application of the budgeting backend: the tables of         *)
(* models.py (Wallet, TransactionCategory, UserTransactionTag,             *)
(* Transaction), the request handlers of views.py with the serializers of  *)
(* serializers.py, and the default-category seeding of signals.py and      *)
(* management/commands/seed_categories.py.                                 *)
(*                                                                         *)
(* A handler is an operator from the database and the request to a         *)
(* response [status, db]: the status the caller gets and the database the  *)
(* handler leaves.  An action commits the response of one request.         *)
(* Decimal amounts are integers (hundredths); ids are drawn from counters, *)
(* a fresh one per row (uuid4 never repeats an id).                        *)
(***************************************************************************)
EXTENDS Integers, FiniteSets, Sequences, TLC

VARIABLES
    users,      \* auth User rows: the set of user ids
    wallets,    \* Wallet rows: id -> [name, user, initial_value, currency]
    txs,        \* Transaction rows: id -> [note, amount, currency, date, wallet, created_by, category, tags]
    cats,       \* TransactionCategory rows: id -> [name, user, icon, color, is_visible, is_archived]
    tags,       \* UserTransactionTag rows: id -> [name, user, icon, color, is_visible]
    ids,        \* ids handed out so far, per table
    signal,     \* post_save receivers in progress: user -> index of the next template
    command,    \* the seed_categories run in progress, or NoCommand
    clock,      \* the server's date: [year, month]
    flight      \* requests between two of their database statements, per worker

vars == <<users, wallets, txs, cats, tags, ids, signal, command, clock, flight>>

\* ------------------------------------------------------------- bounds

MaxUsers == 2
MaxWallets == 2
MaxTxs == 2
MaxCats == 1
MaxTags == 2
NumCurrencies == 2
NumDefaults == 2
FirstYear == 2025
MaxYears == 2

\* ---------------------------------------------------------- constants

\* Python's None: a null foreign key, a missing context entry.
Null == 0

CURRENCY_ORDER == <<"usd", "eur", "gbp", "pln">>

CURRENCIES == {CURRENCY_ORDER[i] : i \in 1..4}

DEFAULT_CATEGORIES ==
    << [name |-> "Salary", icon |-> "banknote", color |-> "#22C55E"],
       [name |-> "Freelance", icon |-> "laptop", color |-> "#10B981"],
       [name |-> "Investments", icon |-> "trending-up", color |-> "#059669"],
       [name |-> "Gifts Received", icon |-> "gift", color |-> "#14B8A6"],
       [name |-> "Groceries", icon |-> "shopping-cart", color |-> "#F97316"],
       [name |-> "Dining Out", icon |-> "utensils", color |-> "#FB923C"],
       [name |-> "Transportation", icon |-> "car", color |-> "#EAB308"],
       [name |-> "Entertainment", icon |-> "tv", color |-> "#A855F7"],
       [name |-> "Shopping", icon |-> "shopping-bag", color |-> "#EC4899"],
       [name |-> "Healthcare", icon |-> "heart-pulse", color |-> "#EF4444"],
       [name |-> "Utilities", icon |-> "zap", color |-> "#6366F1"],
       [name |-> "Rent/Mortgage", icon |-> "home", color |-> "#8B5CF6"],
       [name |-> "Insurance", icon |-> "shield", color |-> "#0EA5E9"],
       [name |-> "Education", icon |-> "graduation-cap", color |-> "#06B6D4"],
       [name |-> "Personal Care", icon |-> "sparkles", color |-> "#D946EF"],
       [name |-> "Gifts Given", icon |-> "gift", color |-> "#F472B6"],
       [name |-> "Subscriptions", icon |-> "repeat", color |-> "#64748B"],
       [name |-> "Travel", icon |-> "plane", color |-> "#0284C7"],
       [name |-> "Other", icon |-> "more-horizontal", color |-> "#6B7280"] >>

\* The templates the model seeds: the first NumDefaults of the list.
Templates == SubSeq(DEFAULT_CATEGORIES, 1, NumDefaults)

CATEGORY_DEFAULT_COLOR == "#6B7280"

TAG_DEFAULT_COLOR == "#3B82F6"

\* ------------------------------------------------------------ helpers

DB == [users |-> users, wallets |-> wallets, txs |-> txs, cats |-> cats,
       tags |-> tags, ids |-> ids, now |-> clock]

NoRows == [x \in {} |-> Null]

\* The months of a year, and the date the server starts at.
MONTHS == 12

Epoch == [year |-> FirstYear, month |-> 1]

EmptyDB == [users |-> {}, wallets |-> NoRows, txs |-> NoRows, cats |-> NoRows,
            tags |-> NoRows, ids |-> [user |-> 0, wallet |-> 0, tx |-> 0, cat |-> 0, tag |-> 0],
            now |-> Epoch]

Response(st, db) == [status |-> st, db |-> db]

Restrict(f, S) == [x \in S |-> f[x]]

Insert(f, id, row) == [x \in DOMAIN f \cup {id} |-> IF x = id THEN row ELSE f[x]]

Has(body, f) == f \in body.present

\* ModelSerializer.update: every validated attribute that is a column of the
\* row is assigned, the others stay.
Assign(row, body, fields) ==
    [f \in DOMAIN row |-> IF f \in fields /\ Has(body, f) THEN body[f] ELSE row[f]]

RECURSIVE SumAmount(_, _)
SumAmount(rows, S) ==
    IF S = {} THEN 0
    ELSE LET t == CHOOSE x \in S : TRUE
         IN rows[t].amount + SumAmount(rows, S \ {t})

\* ------------------------------------------------------------ wallets

\* get_object_or_404(Wallet, id=wallet_id, user=self.request.user)
WalletOwned(db, u, wid) ==
    wid \in DOMAIN db.wallets /\ db.wallets[wid].user = u

WalletFields == {"name", "user", "initial_value", "currency"}

\* WalletSerializer, fields = '__all__': name, user, initial_value and currency
\* are writable (id is not editable, balance is computed); each is required
\* unless the update is partial, user must name a User row and currency one of
\* the choices.
WalletSerializer_is_valid(db, body, partial) ==
    /\ partial \/ WalletFields \subseteq body.present
    /\ Has(body, "user") => body.user \in db.users
    /\ Has(body, "currency") => body.currency \in CURRENCIES

\* get_balance with the filter on the wallet left out of the query.
get_balance_unfiltered(db, wid) ==
    db.wallets[wid].initial_value + SumAmount(db.txs, DOMAIN db.txs)

\* WalletSerializer.get_balance
get_balance(db, wid) ==
    LET transactions == {t \in DOMAIN db.txs : db.txs[t].wallet = wid}
        amount__sum == IF transactions = {} THEN Null ELSE SumAmount(db.txs, transactions)
        total == IF amount__sum = Null THEN 0 ELSE amount__sum
    IN db.wallets[wid].initial_value + total

\* WalletList.get_queryset
WalletList_get_queryset(db, u) ==
    {w \in DOMAIN db.wallets : db.wallets[w].user = u}

\* POST /wallets/ (WalletList.perform_create: serializer.save(user=request.user))
WalletList_create(db, u, body) ==
    IF ~WalletSerializer_is_valid(db, body, FALSE) THEN Response("ValidationError", db)
    ELSE LET id == db.ids.wallet + 1
             row == [name |-> body.name, user |-> u,
                     initial_value |-> body.initial_value, currency |-> body.currency]
         IN Response("Created",
                     [db EXCEPT !.wallets = Insert(db.wallets, id, row), !.ids.wallet = id])

\* The wallet as WalletSerializer renders it: the columns and the balance.
WalletSerializer_data(db, wid) ==
    [id |-> wid, name |-> db.wallets[wid].name, user |-> db.wallets[wid].user,
     initial_value |-> db.wallets[wid].initial_value,
     currency |-> db.wallets[wid].currency, balance |-> get_balance(db, wid)]

\* GET /wallets/{wallet_id}/
WalletDetail_retrieve(db, u, wid) ==
    IF ~WalletOwned(db, u, wid) THEN Response("NotFound", db)
    ELSE [status |-> "OK", db |-> db, data |-> WalletSerializer_data(db, wid)]

\* PUT, PATCH /wallets/{wallet_id}/ (get_object, the serializer, perform_update)
WalletDetail_update(db, u, wid, body, partial) ==
    IF ~WalletOwned(db, u, wid) THEN Response("NotFound", db)
    ELSE IF ~WalletSerializer_is_valid(db, body, partial) THEN Response("ValidationError", db)
    ELSE Response("OK",
                  [db EXCEPT !.wallets[wid] = Assign(db.wallets[wid], body, WalletFields)])

\* The wallet's delete with Transaction.wallet not cascading.
Wallet_delete_alone(db, wid) ==
    [db EXCEPT !.wallets = Restrict(db.wallets, DOMAIN db.wallets \ {wid})]

\* Transaction.wallet, Transaction.tags: on_delete=CASCADE takes the wallet's
\* transactions (and their rows of the tags relation) with the wallet.
Wallet_delete(db, wid) ==
    [db EXCEPT !.wallets = Restrict(db.wallets, DOMAIN db.wallets \ {wid}),
               !.txs = Restrict(db.txs, {t \in DOMAIN db.txs : db.txs[t].wallet # wid})]

\* DELETE /wallets/{wallet_id}/ (get_object, perform_destroy)
WalletDetail_destroy(db, u, wid) ==
    IF ~WalletOwned(db, u, wid) THEN Response("NotFound", db)
    ELSE Response("NoContent", Wallet_delete(db, wid))

\* ------------------------------------------------------- transactions

TransactionFields == {"note", "amount", "currency", "category_id", "tag_ids"}

\* TransactionSerializer.validate_category_id
validate_category_id(db, u, value) ==
    value # Null => (value \in DOMAIN db.cats /\ db.cats[value].user = u)

\* TransactionSerializer.validate_tag_ids
validate_tag_ids(db, u, value) ==
    \A tag_id \in value : tag_id \in DOMAIN db.tags /\ db.tags[tag_id].user = u

\* TransactionSerializer.validate: wallet is the serializer context's wallet
\* (Null when the view put none there).
TransactionSerializer_validate(db, wallet, body) ==
    ~(/\ wallet # Null
      /\ Has(body, "currency")
      /\ db.wallets[wallet].currency # body.currency)

\* The serializer's fields, then validate(): note, amount and currency are
\* required unless the update is partial, currency is one of the choices,
\* category_id and tag_ids go through their validate_ methods.
TransactionSerializer_is_valid(db, u, wallet, body, partial) ==
    /\ partial \/ {"note", "amount", "currency"} \subseteq body.present
    /\ Has(body, "currency") => body.currency \in CURRENCIES
    /\ Has(body, "category_id") => validate_category_id(db, u, body.category_id)
    /\ Has(body, "tag_ids") => validate_tag_ids(db, u, body.tag_ids)
    /\ TransactionSerializer_validate(db, wallet, body)

\* validated_data: the serializer's own fields of the request, and tag_ids
\* with its default ([]) when it is omitted and the update is not partial.
validated_data(body, partial) ==
    [body EXCEPT !.present =
        (body.present \cap TransactionFields)
            \cup (IF partial THEN {} ELSE {"tag_ids"})]

\* UserTransactionTag.objects.filter(id__in=tag_ids, user=request.user)
OwnTags(db, u, tag_ids) ==
    {g \in tag_ids : g \in DOMAIN db.tags /\ db.tags[g].user = u}

\* TransactionSerializer.create, called by serializer.save(wallet=, created_by=)
TransactionSerializer_create(db, u, data, wallet, created_by) ==
    LET id == db.ids.tx + 1
        category_id == IF Has(data, "category_id") THEN data.category_id ELSE Null
        tag_ids == IF Has(data, "tag_ids") THEN data.tag_ids ELSE {}
        row == [note |-> data.note, amount |-> data.amount, currency |-> data.currency,
                date |-> db.now, wallet |-> wallet, created_by |-> created_by,
                category |-> category_id,
                tags |-> IF tag_ids # {} THEN OwnTags(db, u, tag_ids) ELSE {}]
    IN [db EXCEPT !.txs = Insert(db.txs, id, row), !.ids.tx = id]

\* TransactionSerializer.update without its elif: a category_id of None is
\* treated as one left out.
TransactionSerializer_update_null_keeps(db, u, tid, data, initial_data) ==
    LET instance == db.txs[tid]
        category_id == IF Has(data, "category_id") THEN data.category_id ELSE Null
        saved == [Assign(instance, data, {"note", "amount", "currency"})
                     EXCEPT !.category = IF category_id # Null THEN category_id ELSE @]
        row == IF Has(data, "tag_ids")
               THEN [saved EXCEPT !.tags = OwnTags(db, u, data.tag_ids)]
               ELSE saved
    IN [db EXCEPT !.txs[tid] = row]

\* TransactionSerializer.update with date among the writable fields: a date
\* the request supplies is assigned.
TransactionSerializer_update_date_writable(db, u, tid, data, initial_data) ==
    LET instance == db.txs[tid]
        category_id == IF Has(data, "category_id") THEN data.category_id ELSE Null
        category == IF category_id # Null THEN category_id
                    ELSE IF Has(initial_data, "category_id") THEN Null
                    ELSE instance.category
        saved == [Assign(instance, data, {"note", "amount", "currency"})
                     EXCEPT !.category = category,
                            !.date = IF Has(initial_data, "date") THEN initial_data.date ELSE @]
        row == IF Has(data, "tag_ids")
               THEN [saved EXCEPT !.tags = OwnTags(db, u, data.tag_ids)]
               ELSE saved
    IN [db EXCEPT !.txs[tid] = row]

\* TransactionSerializer.update; initial_data is the request body
TransactionSerializer_update(db, u, tid, data, initial_data) ==
    LET instance == db.txs[tid]
        category_id == IF Has(data, "category_id") THEN data.category_id ELSE Null
        category == IF category_id # Null THEN category_id
                    ELSE IF Has(initial_data, "category_id") THEN Null
                    ELSE instance.category
        saved == [Assign(instance, data, {"note", "amount", "currency"})
                     EXCEPT !.category = category]
        row == IF Has(data, "tag_ids")
               THEN [saved EXCEPT !.tags = OwnTags(db, u, data.tag_ids)]
               ELSE saved
    IN [db EXCEPT !.txs[tid] = row]

\* The transaction as TransactionSerializer renders it: the readable fields,
\* the nested category and tags by their ids.
TransactionSerializer_data(db, tid) ==
    [id |-> tid, note |-> db.txs[tid].note, amount |-> db.txs[tid].amount,
     currency |-> db.txs[tid].currency, date |-> db.txs[tid].date,
     category |-> db.txs[tid].category,
     tags |-> db.txs[tid].tags]

\* get_queryset with the filter on the year left out.
WalletTransactionList_get_queryset_any_year(db, u, wid, month, year) ==
    IF ~WalletOwned(db, u, wid) THEN Response("NotFound", db)
    ELSE LET m == IF month = Null THEN db.now.month ELSE month
         IN [status |-> "OK", db |-> db,
             data |-> {t \in DOMAIN db.txs :
                          db.txs[t].wallet = wid /\ db.txs[t].date.month = m}]

\* GET /wallets/{wallet_id}/transactions/?month=&year=
\* (WalletTransactionList.get_queryset; month, year: Null when the query
\* leaves the parameter out, and then datetime.now()'s)
WalletTransactionList_get_queryset(db, u, wid, month, year) ==
    IF ~WalletOwned(db, u, wid) THEN Response("NotFound", db)
    ELSE LET m == IF month = Null THEN db.now.month ELSE month
             y == IF year = Null THEN db.now.year ELSE year
         IN [status |-> "OK", db |-> db,
             data |-> {t \in DOMAIN db.txs :
                          /\ db.txs[t].wallet = wid
                          /\ db.txs[t].date.month = m
                          /\ db.txs[t].date.year = y}]

\* WalletTransactionList.perform_create saving under the wallet the body
\* names, when it names one, rather than the wallet of the path.
WalletTransactionList_create_body_wallet(db, u, wid, body) ==
    IF ~WalletOwned(db, u, wid) THEN Response("NotFound", db)
    ELSE IF ~TransactionSerializer_is_valid(db, u, wid, body, FALSE)
         THEN Response("ValidationError", db)
    ELSE Response("Created",
                  TransactionSerializer_create(db, u, validated_data(body, FALSE),
                      IF Has(body, "wallet") THEN body.wallet ELSE wid, u))

\* POST /wallets/{wallet_id}/transactions/
\* (get_serializer_context, is_valid, perform_create)
WalletTransactionList_create(db, u, wid, body) ==
    IF ~WalletOwned(db, u, wid) THEN Response("NotFound", db)
    ELSE IF ~TransactionSerializer_is_valid(db, u, wid, body, FALSE)
         THEN Response("ValidationError", db)
    ELSE Response("Created",
                  TransactionSerializer_create(db, u, validated_data(body, FALSE), wid, u))

\* TransactionCreate without its get_serializer_context.
TransactionCreate_context_unset(db, u, body) == Null

\* TransactionCreate.get_serializer_context: the wallet of the body when the
\* caller owns it, else no wallet in the context.
TransactionCreate_context(db, u, body) ==
    IF Has(body, "wallet") /\ body.wallet # Null /\ WalletOwned(db, u, body.wallet)
    THEN body.wallet ELSE Null

\* TransactionCreate.perform_create saving before it looks the wallet up.
TransactionCreate_create_save_first(db, u, body) ==
    IF ~TransactionSerializer_is_valid(db, u, TransactionCreate_context(db, u, body), body, FALSE)
    THEN Response("ValidationError", db)
    ELSE LET saved == TransactionSerializer_create(db, u, validated_data(body, FALSE),
                                                   body.wallet, u)
         IN IF ~(Has(body, "wallet") /\ body.wallet # Null)
            THEN Response("ValidationError", saved)
            ELSE IF ~WalletOwned(db, u, body.wallet) THEN Response("NotFound", saved)
            ELSE Response("Created", saved)

\* POST /transactions/ (get_serializer_context, is_valid, perform_create)
TransactionCreate_create(db, u, body) ==
    IF ~TransactionSerializer_is_valid(db, u, TransactionCreate_context(db, u, body), body, FALSE)
    THEN Response("ValidationError", db)
    ELSE IF ~(Has(body, "wallet") /\ body.wallet # Null)
         THEN Response("ValidationError", db)
    ELSE IF ~WalletOwned(db, u, body.wallet) THEN Response("NotFound", db)
    ELSE Response("Created",
                  TransactionSerializer_create(db, u, validated_data(body, FALSE),
                                               body.wallet, u))

\* WalletTransactionDetail.get_queryset and get_object
WalletTransactionDetail_found(db, u, wid, tid) ==
    /\ WalletOwned(db, u, wid)
    /\ tid \in DOMAIN db.txs
    /\ db.txs[tid].wallet = wid

\* The serializer context of WalletTransactionDetail: the view defines no
\* get_serializer_context, so the context holds no wallet.
WalletTransactionDetail_context(db, tid) == Null

\* PUT, PATCH /wallets/{wallet_id}/transactions/{pk}/
WalletTransactionDetail_update(db, u, wid, tid, body, partial) ==
    IF ~WalletTransactionDetail_found(db, u, wid, tid) THEN Response("NotFound", db)
    ELSE IF ~TransactionSerializer_is_valid(db, u, WalletTransactionDetail_context(db, tid),
                                            body, partial)
         THEN Response("ValidationError", db)
    ELSE Response("OK",
                  TransactionSerializer_update(db, u, tid, validated_data(body, partial), body))

\* GET /wallets/{wallet_id}/transactions/{pk}/
WalletTransactionDetail_retrieve(db, u, wid, tid) ==
    IF ~WalletTransactionDetail_found(db, u, wid, tid) THEN Response("NotFound", db)
    ELSE [status |-> "OK", db |-> db, data |-> TransactionSerializer_data(db, tid)]

Transaction_delete(db, tid) ==
    [db EXCEPT !.txs = Restrict(db.txs, DOMAIN db.txs \ {tid})]

\* DELETE /wallets/{wallet_id}/transactions/{pk}/
WalletTransactionDetail_destroy(db, u, wid, tid) ==
    IF ~WalletTransactionDetail_found(db, u, wid, tid) THEN Response("NotFound", db)
    ELSE Response("NoContent", Transaction_delete(db, tid))

\* TransactionDetail.get_queryset without the filter on the caller's wallets.
TransactionDetail_found_unscoped(db, u, tid) ==
    tid \in DOMAIN db.txs

\* TransactionDetail.get_queryset filtering on the transaction's creator
\* rather than on the caller's wallets.
TransactionDetail_found_by_creator(db, u, tid) ==
    /\ tid \in DOMAIN db.txs
    /\ db.txs[tid].created_by = u

\* TransactionDetail.get_queryset and get_object
TransactionDetail_found(db, u, tid) ==
    /\ tid \in DOMAIN db.txs
    /\ db.txs[tid].wallet \in WalletList_get_queryset(db, u)

\* TransactionDetail.get_serializer_context: the transaction's wallet
TransactionDetail_context(db, tid) == db.txs[tid].wallet

\* PUT, PATCH /transactions/{pk}/
TransactionDetail_update(db, u, tid, body, partial) ==
    IF ~TransactionDetail_found(db, u, tid) THEN Response("NotFound", db)
    ELSE IF ~TransactionSerializer_is_valid(db, u, TransactionDetail_context(db, tid),
                                            body, partial)
         THEN Response("ValidationError", db)
    ELSE Response("OK",
                  TransactionSerializer_update(db, u, tid, validated_data(body, partial), body))

\* GET /transactions/{pk}/
TransactionDetail_retrieve(db, u, tid) ==
    IF ~TransactionDetail_found(db, u, tid) THEN Response("NotFound", db)
    ELSE [status |-> "OK", db |-> db, data |-> TransactionSerializer_data(db, tid)]

\* DELETE /transactions/{pk}/
TransactionDetail_destroy(db, u, tid) ==
    IF ~TransactionDetail_found(db, u, tid) THEN Response("NotFound", db)
    ELSE Response("NoContent", Transaction_delete(db, tid))

\* --------------------------------------------------------- categories

\* The constraint as a partial one that leaves the archived rows out.
Category_duplicate_unarchived(db, self, user, name) ==
    \E c \in DOMAIN db.cats \ {self} :
        db.cats[c].user = user /\ db.cats[c].name = name /\ ~db.cats[c].is_archived

\* TransactionCategory.Meta.unique_together = [['name', 'user']], enforced by
\* the database on every INSERT and UPDATE of the table: the row (other than
\* the one being written) that already holds the pair.
Category_duplicate(db, self, user, name) ==
    \E c \in DOMAIN db.cats \ {self} :
        db.cats[c].user = user /\ db.cats[c].name = name

\* TransactionCategory.objects.create(...): the row is written unless the
\* database raises IntegrityError.
Category_insert(db, row) ==
    IF Category_duplicate(db, Null, row.user, row.name)
    THEN Response("IntegrityError", db)
    ELSE LET id == db.ids.cat + 1
         IN Response("Created",
                     [db EXCEPT !.cats = Insert(db.cats, id, row), !.ids.cat = id])

CategoryFields == {"name", "icon", "color", "is_visible", "is_archived"}

\* CategorySerializer: name is required unless the update is partial; icon
\* (blank=True) and color, is_visible, is_archived (defaults) are optional.
\* user is no field of the serializer, so no unique-together validator runs.
CategorySerializer_is_valid(body, partial) ==
    partial \/ Has(body, "name")

\* get_queryset with include_hidden also lifting the filter on is_archived.
UserCategoryList_get_queryset_with_archived(db, u, include_hidden) ==
    {c \in DOMAIN db.cats :
        /\ db.cats[c].user = u
        /\ include_hidden \/ (db.cats[c].is_visible /\ ~db.cats[c].is_archived)}

\* UserCategoryList.get_queryset
UserCategoryList_get_queryset(db, u, include_hidden) ==
    {c \in DOMAIN db.cats :
        /\ db.cats[c].user = u
        /\ ~db.cats[c].is_archived
        /\ include_hidden \/ db.cats[c].is_visible}

\* POST categories/ (UserCategoryList.perform_create: save(user=request.user))
UserCategoryList_create(db, u, body) ==
    IF ~CategorySerializer_is_valid(body, FALSE) THEN Response("ValidationError", db)
    ELSE Category_insert(db,
            [name |-> body.name, user |-> u,
             icon |-> IF Has(body, "icon") THEN body.icon ELSE "",
             color |-> IF Has(body, "color") THEN body.color ELSE CATEGORY_DEFAULT_COLOR,
             is_visible |-> IF Has(body, "is_visible") THEN body.is_visible ELSE TRUE,
             is_archived |-> IF Has(body, "is_archived") THEN body.is_archived ELSE FALSE])

\* UserCategoryDetail.get_queryset and get_object
UserCategoryDetail_found(db, u, cid) ==
    cid \in DOMAIN db.cats /\ db.cats[cid].user = u

\* GET categories/{pk}/
UserCategoryDetail_retrieve(db, u, cid) ==
    IF ~UserCategoryDetail_found(db, u, cid) THEN Response("NotFound", db)
    ELSE Response("OK", db)

\* PUT, PATCH categories/{pk}/
UserCategoryDetail_update(db, u, cid, body, partial) ==
    IF ~UserCategoryDetail_found(db, u, cid) THEN Response("NotFound", db)
    ELSE IF ~CategorySerializer_is_valid(body, partial) THEN Response("ValidationError", db)
    ELSE LET row == Assign(db.cats[cid], body, CategoryFields)
         IN IF Category_duplicate(db, cid, row.user, row.name)
            THEN Response("IntegrityError", db)
            ELSE Response("OK", [db EXCEPT !.cats[cid] = row])

\* DELETE categories/{pk}/ without perform_destroy: the row is deleted and
\* Transaction.category (on_delete=SET_NULL) is nulled.
UserCategoryDetail_destroy_row(db, u, cid) ==
    IF ~(cid \in DOMAIN db.cats /\ db.cats[cid].user = u) THEN Response("NotFound", db)
    ELSE Response("NoContent",
            [db EXCEPT !.cats = Restrict(db.cats, DOMAIN db.cats \ {cid}),
                       !.txs = [t \in DOMAIN db.txs |->
                                   [db.txs[t] EXCEPT !.category =
                                       IF @ = cid THEN Null ELSE @]]])

\* DELETE categories/{pk}/ (UserCategoryDetail.perform_destroy)
UserCategoryDetail_destroy(db, u, cid) ==
    IF ~UserCategoryDetail_found(db, u, cid) THEN Response("NotFound", db)
    ELSE Response("NoContent", [db EXCEPT !.cats[cid].is_archived = TRUE])

\* --------------------------------------------------------------- tags

\* UserTransactionTag.Meta.unique_together = [['name', 'user']]
Tag_duplicate(db, self, user, name) ==
    \E g \in DOMAIN db.tags \ {self} :
        db.tags[g].user = user /\ db.tags[g].name = name

TagFields == {"name", "icon", "color", "is_visible"}

\* TagSerializer: name is required unless the update is partial.
TagSerializer_is_valid(body, partial) ==
    partial \/ Has(body, "name")

\* UserTagList.get_queryset
UserTagList_get_queryset(db, u, include_hidden) ==
    {g \in DOMAIN db.tags :
        /\ db.tags[g].user = u
        /\ include_hidden \/ db.tags[g].is_visible}

\* POST tags/ (UserTagList.perform_create: save(user=request.user))
UserTagList_create(db, u, body) ==
    IF ~TagSerializer_is_valid(body, FALSE) THEN Response("ValidationError", db)
    ELSE IF Tag_duplicate(db, Null, u, body.name) THEN Response("IntegrityError", db)
    ELSE LET id == db.ids.tag + 1
             row == [name |-> body.name, user |-> u,
                     icon |-> IF Has(body, "icon") THEN body.icon ELSE "",
                     color |-> IF Has(body, "color") THEN body.color ELSE TAG_DEFAULT_COLOR,
                     is_visible |-> IF Has(body, "is_visible") THEN body.is_visible ELSE TRUE]
         IN Response("Created",
                     [db EXCEPT !.tags = Insert(db.tags, id, row), !.ids.tag = id])

\* UserTagDetail.get_queryset and get_object
UserTagDetail_found(db, u, gid) ==
    gid \in DOMAIN db.tags /\ db.tags[gid].user = u

\* GET tags/{pk}/
UserTagDetail_retrieve(db, u, gid) ==
    IF ~UserTagDetail_found(db, u, gid) THEN Response("NotFound", db)
    ELSE Response("OK", db)

\* PUT, PATCH tags/{pk}/
UserTagDetail_update(db, u, gid, body, partial) ==
    IF ~UserTagDetail_found(db, u, gid) THEN Response("NotFound", db)
    ELSE IF ~TagSerializer_is_valid(body, partial) THEN Response("ValidationError", db)
    ELSE LET row == Assign(db.tags[gid], body, TagFields)
         IN IF Tag_duplicate(db, gid, row.user, row.name)
            THEN Response("IntegrityError", db)
            ELSE Response("OK", [db EXCEPT !.tags[gid] = row])

\* DELETE tags/{pk}/ as a soft delete, the way of the categories: the row
\* stays and is hidden.
UserTagDetail_destroy_hide(db, u, gid) ==
    IF ~UserTagDetail_found(db, u, gid) THEN Response("NotFound", db)
    ELSE Response("NoContent", [db EXCEPT !.tags[gid].is_visible = FALSE])

\* DELETE tags/{pk}/: the row goes, and with it its rows of Transaction.tags.
UserTagDetail_destroy(db, u, gid) ==
    IF ~UserTagDetail_found(db, u, gid) THEN Response("NotFound", db)
    ELSE Response("NoContent",
            [db EXCEPT !.tags = Restrict(db.tags, DOMAIN db.tags \ {gid}),
                       !.txs = [t \in DOMAIN db.txs |->
                                   [db.txs[t] EXCEPT !.tags = @ \ {gid}]]])

\* ------------------------------------------------------------ seeding

\* The category a template becomes for a user (the model's defaults for the
\* fields the seeding code does not set).
TemplateCategory(u, i) ==
    [name |-> Templates[i].name, user |-> u, icon |-> Templates[i].icon,
     color |-> Templates[i].color, is_visible |-> TRUE, is_archived |-> FALSE]

NoCommand == [users |-> <<>>, idx |-> 0, phase |-> "idle"]

SignalDone == [next |-> NumDefaults + 1, raised |-> FALSE]

RECURSIVE Ascending(_)
Ascending(S) ==
    IF S = {} THEN <<>>
    ELSE LET m == CHOOSE x \in S : \A y \in S : x <= y
         IN <<m>> \o Ascending(S \ {m})

\* Command.handle, the choice of the users to process: --user names one user
\* (none when no such user), --all takes every user, and no option takes the
\* users without any category.
Command_users(db, mode, username) ==
    IF mode = "user" THEN (IF username \in db.users THEN <<username>> ELSE <<>>)
    ELSE IF mode = "all" THEN Ascending(db.users)
    ELSE Ascending({u \in db.users : ~\E c \in DOMAIN db.cats : db.cats[c].user = u})

\* The loops of Command.handle after one get_or_create: the next template, or
\* the next user, or the end of the run.
Command_advance(cmd) ==
    IF cmd.idx < NumDefaults THEN [cmd EXCEPT !.idx = @ + 1, !.phase = "get"]
    ELSE IF Len(cmd.users) > 1 THEN [users |-> Tail(cmd.users), idx |-> 1, phase |-> "get"]
    ELSE NoCommand

\* get_or_create with the lookup on the name alone (user=user left out).
Command_get_or_create_by_name(db, u, i) ==
    IF \E c \in DOMAIN db.cats : db.cats[c].name = Templates[i].name
    THEN db
    ELSE Category_insert(db, TemplateCategory(u, i)).db

\* TransactionCategory.objects.get_or_create(name=, user=, defaults=): the row
\* of that name and user when there is one (left as it is), else a new row
\* from the template.
Command_get_or_create(db, u, i) ==
    IF Category_duplicate(db, Null, u, Templates[i].name)
    THEN db
    ELSE Category_insert(db, TemplateCategory(u, i)).db

\* Command.handle run from start to end with nothing in between: for each
\* selected user, get_or_create for each template in order.
RECURSIVE Command_templates(_, _, _)
Command_templates(db, u, i) ==
    IF i > NumDefaults THEN db
    ELSE Command_templates(Command_get_or_create(db, u, i), u, i + 1)

RECURSIVE Command_loop(_, _)
Command_loop(db, selected) ==
    IF selected = <<>> THEN db
    ELSE Command_loop(Command_templates(db, Head(selected), 1), Tail(selected))

Command_handle(db, mode, username) ==
    Command_loop(db, Command_users(db, mode, username))

\* A registration that nothing interleaves with: the User row, then the
\* receiver create_default_categories_for_user creating every template.
RECURSIVE SeedFrom(_, _, _)
SeedFrom(db, u, i) ==
    IF i > NumDefaults THEN db
    ELSE SeedFrom(Category_insert(db, TemplateCategory(u, i)).db, u, i + 1)

Register(db) ==
    LET u == db.ids.user + 1
    IN SeedFrom([db EXCEPT !.users = @ \cup {u}, !.ids.user = u], u, 1)

\* The receiver's loop run from template i to the end with nothing in
\* between: an IntegrityError of a create leaves the loop and the receiver.
RECURSIVE Receiver_loop(_, _, _)
Receiver_loop(db, instance, i) ==
    IF i > NumDefaults THEN Response("Returned", db)
    ELSE LET r == Category_insert(db, TemplateCategory(instance, i))
         IN IF r.status = "IntegrityError" THEN Response("IntegrityError", db)
            ELSE Receiver_loop(r.db, instance, i + 1)

\* The receiver without its test of created.
create_default_categories_whenever_saved(db, instance, created) ==
    Receiver_loop(db, instance, 1)

\* create_default_categories_for_user(sender, instance, created, **kwargs)
create_default_categories_for_user(db, instance, created) ==
    IF ~created THEN Response("Returned", db)
    ELSE Receiver_loop(db, instance, 1)

\* User.save(): the row is inserted when the user is new, then post_save
\* calls the receiver; what the receiver raises, save() raises.
User_save(db, u) ==
    LET created == u \notin db.users
        saved == IF created THEN [db EXCEPT !.users = @ \cup {u}, !.ids.user = u] ELSE db
    IN create_default_categories_for_user(saved, u, created)

\* ------------------------------------------------------------ actions

Commit(r) ==
    /\ users' = r.db.users
    /\ wallets' = r.db.wallets
    /\ txs' = r.db.txs
    /\ cats' = r.db.cats
    /\ tags' = r.db.tags
    /\ ids' = r.db.ids
    /\ UNCHANGED <<signal, command, clock, flight>>

CreateWallet(u, body) ==
    /\ ids.wallet < MaxWallets
    /\ Commit(WalletList_create(DB, u, body))

UpdateWallet(u, wid, body, partial) ==
    Commit(WalletDetail_update(DB, u, wid, body, partial))

DeleteWallet(u, wid) ==
    Commit(WalletDetail_destroy(DB, u, wid))

CreateTransactionNested(u, wid, body) ==
    /\ ids.tx < MaxTxs
    /\ Commit(WalletTransactionList_create(DB, u, wid, body))

CreateTransactionDirect(u, body) ==
    /\ ids.tx < MaxTxs
    /\ Commit(TransactionCreate_create(DB, u, body))

UpdateTransactionNested(u, wid, tid, body, partial) ==
    Commit(WalletTransactionDetail_update(DB, u, wid, tid, body, partial))

UpdateTransactionDirect(u, tid, body, partial) ==
    Commit(TransactionDetail_update(DB, u, tid, body, partial))

DeleteTransactionNested(u, wid, tid) ==
    Commit(WalletTransactionDetail_destroy(DB, u, wid, tid))

DeleteTransactionDirect(u, tid) ==
    Commit(TransactionDetail_destroy(DB, u, tid))

CreateCategory(u, body) ==
    /\ ids.cat < MaxUsers * NumDefaults + MaxCats
    /\ Commit(UserCategoryList_create(DB, u, body))

UpdateCategory(u, cid, body, partial) ==
    Commit(UserCategoryDetail_update(DB, u, cid, body, partial))

ArchiveCategory(u, cid) ==
    Commit(UserCategoryDetail_destroy(DB, u, cid))

CreateTag(u, body) ==
    /\ ids.tag < MaxTags
    /\ Commit(UserTagList_create(DB, u, body))

UpdateTag(u, gid, body, partial) ==
    Commit(UserTagDetail_update(DB, u, gid, body, partial))

DeleteTag(u, gid) ==
    Commit(UserTagDetail_destroy(DB, u, gid))

\* User.save() of a new user: the row, then post_save starts the receiver.
CreateUser ==
    /\ ids.user < MaxUsers
    /\ LET u == ids.user + 1
       IN /\ users' = users \cup {u}
          /\ ids' = [ids EXCEPT !.user = u]
          /\ signal' = Insert(signal, u, [next |-> 1, raised |-> FALSE])
    /\ UNCHANGED <<wallets, txs, cats, tags, command, clock, flight>>

\* One turn of the receiver's loop: TransactionCategory.objects.create for the
\* next template.  An IntegrityError is not caught: it leaves the receiver.
SignalStep(u) ==
    /\ u \in DOMAIN signal
    /\ ~signal[u].raised
    /\ signal[u].next <= NumDefaults
    /\ LET r == Category_insert(DB, TemplateCategory(u, signal[u].next))
       IN IF r.status = "IntegrityError"
          THEN /\ signal' = [signal EXCEPT ![u].raised = TRUE]
               /\ UNCHANGED <<cats, ids>>
          ELSE /\ signal' = [signal EXCEPT ![u].next = @ + 1]
               /\ cats' = r.db.cats
               /\ ids' = r.db.ids
    /\ UNCHANGED <<users, wallets, txs, tags, command, clock, flight>>

\* manage.py seed_categories [--all | --user username]: up to the first
\* get_or_create.
SeedStart(mode, username) ==
    /\ command = NoCommand
    /\ LET selected == Command_users(DB, mode, username)
       IN command' = IF selected = <<>> THEN NoCommand
                     ELSE [users |-> selected, idx |-> 1, phase |-> "get"]
    /\ UNCHANGED <<users, wallets, txs, cats, tags, ids, signal, clock, flight>>

\* get_or_create, the lookup: a row found is returned (created = False).
SeedGet ==
    /\ command.phase = "get"
    /\ command' = IF Category_duplicate(DB, Null, Head(command.users),
                                        Templates[command.idx].name)
                  THEN Command_advance(command)
                  ELSE [command EXCEPT !.phase = "create"]
    /\ UNCHANGED <<users, wallets, txs, cats, tags, ids, signal, clock, flight>>

\* get_or_create, the insert after a lookup that found nothing: on
\* IntegrityError the row that got there first is fetched and returned.
SeedCreate ==
    /\ command.phase = "create"
    /\ LET r == Category_insert(DB, TemplateCategory(Head(command.users), command.idx))
       IN /\ cats' = r.db.cats
          /\ ids' = r.db.ids
    /\ command' = Command_advance(command)
    /\ UNCHANGED <<users, wallets, txs, tags, signal, clock, flight>>

\* Time passes: the server's date moves to a later month.
Tick(year, month) ==
    /\ year > clock.year \/ (year = clock.year /\ month > clock.month)
    /\ clock' = [year |-> year, month |-> month]
    /\ UNCHANGED <<users, wallets, txs, cats, tags, ids, signal, command, flight>>

\* ------------------------------------------------------------- inputs

InputCurrencies == {CURRENCY_ORDER[i] : i \in 1..NumCurrencies}

\* A currency code outside the choices.
BadCurrency == "xxx"

Amounts == {-3, 5}

InitialValues == {0, 10}

UserIds == 1..MaxUsers

WalletIds == 1..MaxWallets

TxIds == 1..MaxTxs

CatIds == 1..(MaxUsers * NumDefaults + MaxCats)

TagIds == 1..MaxTags

\* A request body: the fields it supplies (present) and their values; a field
\* it omits holds a fixed filler that no handler reads.
WalletBody(P, user, initial_value, currency) ==
    [present |-> P, name |-> "w",
     user |-> IF "user" \in P THEN user ELSE Null,
     initial_value |-> IF "initial_value" \in P THEN initial_value ELSE 0,
     currency |-> IF "currency" \in P THEN currency ELSE ""]

WalletBodies(Ps, Us, Vs, Cs) ==
    {WalletBody(P, user, v, c) : P \in Ps, user \in Us, v \in Vs, c \in Cs}

TxBody(P, amount, currency, category_id, tag_ids, wallet) ==
    [present |-> P, note |-> "n",
     amount |-> IF "amount" \in P THEN amount ELSE 0,
     currency |-> IF "currency" \in P THEN currency ELSE "",
     category_id |-> IF "category_id" \in P THEN category_id ELSE Null,
     tag_ids |-> IF "tag_ids" \in P THEN tag_ids ELSE {},
     wallet |-> IF "wallet" \in P THEN wallet ELSE Null]

TxBodies(Ps, As, Cs, Ks, Gs, Ws) ==
    {TxBody(P, a, c, k, g, w) :
        P \in Ps, a \in As, c \in Cs, k \in Ks, g \in Gs, w \in Ws}

LabelBody(P, name, is_visible, is_archived) ==
    [present |-> P,
     name |-> IF "name" \in P THEN name ELSE "",
     icon |-> "tag", color |-> "#000000",
     is_visible |-> IF "is_visible" \in P THEN is_visible ELSE TRUE,
     is_archived |-> IF "is_archived" \in P THEN is_archived ELSE FALSE]

LabelBodies(Ps, Ns, Vs, As) ==
    {LabelBody(P, n, v, a) : P \in Ps, n \in Ns, v \in Vs, a \in As}

\* ------------------------------------------- requests in several steps
\* A request is a sequence of database statements, each committed on its own
\* (autocommit) except inside transaction.atomic; requests of several workers
\* interleave between their statements.  A worker's slot of flight holds the
\* request it serves: the view (op), the statement it is about to issue (pc),
\* what the request read so far, and, once done, its outcome (status).

MaxFlights == 2

Workers == 1..MaxFlights

Idle == [op |-> "none", pc |-> "idle", status |-> "", user |-> Null, wallet |-> Null,
         tx |-> Null, body |-> TxBody({}, 0, "", Null, {}, Null), partial |-> FALSE,
         instance |-> [note |-> "", amount |-> 0, currency |-> "", date |-> Epoch,
                       wallet |-> Null, created_by |-> Null, category |-> Null,
                       tags |-> {}],
         collected |-> {}]

NoFlights == [s \in Workers |-> Idle]

\* The response leaves the worker: the slot keeps the view, the wallet the
\* request named and the outcome.
Done(req, status) ==
    [Idle EXCEPT !.op = req.op, !.pc = "done", !.status = status, !.wallet = req.wallet]

\* A worker that serves no request takes the next one.
Free(s) ==
    /\ flight[s].pc \in {"idle", "done"}
    /\ \A r \in Workers : r < s => flight[r].pc \notin {"idle", "done"}

\* One statement of the request in slot s: the database it leaves, and the
\* request as it goes on.
Statement(db, s, req) ==
    /\ users' = db.users
    /\ wallets' = db.wallets
    /\ txs' = db.txs
    /\ cats' = db.cats
    /\ tags' = db.tags
    /\ ids' = db.ids
    /\ flight' = [flight EXCEPT ![s] = req]
    /\ UNCHANGED <<signal, command, clock>>

\* Transaction.wallet without its constraint in the database
\* (db_constraint=False).
Transaction_wallet_unconstrained(db, row) == TRUE

\* Transaction.wallet: the ForeignKey is a constraint of the database, which
\* refuses to commit a transaction row that names no wallet row.
Transaction_wallet_constraint(db, row) == row.wallet \in DOMAIN db.wallets

\* serializer.save(wallet=, created_by=) of a create: TransactionSerializer
\* .create, whose INSERT the database commits or refuses.
Transaction_insert(db, u, body, wallet) ==
    LET saved == TransactionSerializer_create(db, u, validated_data(body, FALSE), wallet, u)
    IN IF Transaction_wallet_constraint(db, saved.txs[saved.ids.tx])
       THEN Response("Created", saved)
       ELSE Response("IntegrityError", db)

\* serializer.save() of an update: TransactionSerializer.update on the
\* instance the view read, then instance.save(): an UPDATE of the row of the
\* instance's id and, when no row has the id any more, an INSERT.
Transaction_save(db, u, tid, instance, body, partial) ==
    LET held == [db EXCEPT !.txs = Insert(db.txs, tid, instance)]
        saved == TransactionSerializer_update(held, u, tid, validated_data(body, partial), body)
    IN IF Transaction_wallet_constraint(db, saved.txs[tid])
       THEN Response("OK", saved)
       ELSE Response("IntegrityError", db)

\* instance.delete(), the part inside transaction.atomic: the transactions
\* the collector found are deleted, then the wallet; the commit is refused,
\* and nothing is deleted, when a transaction row still names the wallet.
Collector_delete(db, wid, collected) ==
    LET deleted == [db EXCEPT !.wallets = Restrict(db.wallets, DOMAIN db.wallets \ {wid}),
                              !.txs = Restrict(db.txs, DOMAIN db.txs \ collected)]
    IN IF \A t \in DOMAIN deleted.txs : Transaction_wallet_constraint(deleted, deleted.txs[t])
       THEN Response("NoContent", deleted)
       ELSE Response("IntegrityError", db)

\* DELETE /wallets/{wallet_id}/: destroy() calls get_object().
DestroyWalletBegin(s, u, wid) ==
    /\ Free(s)
    /\ LET req == [Idle EXCEPT !.op = "destroy", !.user = u, !.wallet = wid]
       IN Statement(DB, s, IF WalletOwned(DB, u, wid)
                           THEN [req EXCEPT !.pc = "perform_destroy"]
                           ELSE Done(req, "NotFound"))

\* perform_destroy: get_object_or_404(Wallet, id=wallet_id, user=request.user)
DestroyWalletLookup(s) ==
    /\ flight[s].pc = "perform_destroy"
    /\ Statement(DB, s, IF WalletOwned(DB, flight[s].user, flight[s].wallet)
                        THEN [flight[s] EXCEPT !.pc = "collect"]
                        ELSE Done(flight[s], "NotFound"))

\* instance.delete(): the collector reads the transactions of the wallet, the
\* rows that on_delete=CASCADE deletes with it.
DestroyWalletCollect(s) ==
    /\ flight[s].pc = "collect"
    /\ Statement(DB, s,
          [flight[s] EXCEPT !.pc = "delete",
                            !.collected = {t \in DOMAIN txs : txs[t].wallet = flight[s].wallet}])

\* instance.delete(): the deletes, in one transaction.
DestroyWalletDelete(s) ==
    /\ flight[s].pc = "delete"
    /\ LET r == Collector_delete(DB, flight[s].wallet, flight[s].collected)
       IN Statement(r.db, s, Done(flight[s], r.status))

\* POST /wallets/{wallet_id}/transactions/: get_serializer_context looks the
\* wallet up, then is_valid().
CreateNestedBegin(s, u, wid, body) ==
    /\ Free(s)
    /\ ids.tx < MaxTxs
    /\ LET req == [Idle EXCEPT !.op = "create", !.user = u, !.wallet = wid, !.body = body]
       IN Statement(DB, s,
             IF ~WalletOwned(DB, u, wid) THEN Done(req, "NotFound")
             ELSE IF ~TransactionSerializer_is_valid(DB, u, wid, body, FALSE)
                  THEN Done(req, "ValidationError")
             ELSE [req EXCEPT !.pc = "perform_create"])

\* POST /transactions/: get_serializer_context, then is_valid(), then
\* perform_create up to its test of wallet_id.
CreateDirectBegin(s, u, body) ==
    /\ Free(s)
    /\ ids.tx < MaxTxs
    /\ LET req == [Idle EXCEPT !.op = "create", !.user = u, !.wallet = body.wallet,
                               !.body = body]
       IN Statement(DB, s,
             IF ~TransactionSerializer_is_valid(DB, u, TransactionCreate_context(DB, u, body),
                                                body, FALSE)
             THEN Done(req, "ValidationError")
             ELSE IF ~(Has(body, "wallet") /\ body.wallet # Null)
                  THEN Done(req, "ValidationError")
             ELSE [req EXCEPT !.pc = "perform_create"])

\* perform_create (both create views):
\* get_object_or_404(Wallet, id=wallet_id, user=request.user)
CreateLookup(s) ==
    /\ flight[s].pc = "perform_create"
    /\ Statement(DB, s, IF WalletOwned(DB, flight[s].user, flight[s].wallet)
                        THEN [flight[s] EXCEPT !.pc = "save"]
                        ELSE Done(flight[s], "NotFound"))

\* perform_create: serializer.save(created_by=request.user, wallet=wallet)
CreateSave(s) ==
    /\ flight[s].op = "create"
    /\ flight[s].pc = "save"
    /\ ids.tx < MaxTxs
    /\ LET r == Transaction_insert(DB, flight[s].user, flight[s].body, flight[s].wallet)
       IN Statement(r.db, s, Done(flight[s], r.status))

\* PUT, PATCH /wallets/{wallet_id}/transactions/{pk}/: get_object(), then
\* is_valid() (the context holds no wallet).
UpdateNestedBegin(s, u, wid, tid, body, partial) ==
    /\ Free(s)
    /\ LET req == [Idle EXCEPT !.op = "update", !.user = u, !.wallet = wid, !.tx = tid,
                               !.body = body, !.partial = partial]
       IN Statement(DB, s,
             IF ~WalletTransactionDetail_found(DB, u, wid, tid) THEN Done(req, "NotFound")
             ELSE IF ~TransactionSerializer_is_valid(DB, u,
                          WalletTransactionDetail_context(DB, tid), body, partial)
                  THEN Done(req, "ValidationError")
             ELSE [req EXCEPT !.pc = "save", !.instance = txs[tid]])

\* PUT, PATCH /transactions/{pk}/: update() calls get_object().
UpdateDirectBegin(s, u, tid, body, partial) ==
    /\ Free(s)
    /\ LET req == [Idle EXCEPT !.op = "update", !.user = u, !.tx = tid,
                               !.body = body, !.partial = partial]
       IN Statement(DB, s,
             IF ~TransactionDetail_found(DB, u, tid) THEN Done(req, "NotFound")
             ELSE [req EXCEPT !.pc = "context", !.wallet = txs[tid].wallet,
                              !.instance = txs[tid]])

\* TransactionDetail.get_serializer_context: get_object() again and the
\* transaction's wallet, then is_valid().
UpdateDirectContext(s) ==
    /\ flight[s].pc = "context"
    /\ Statement(DB, s,
          IF ~TransactionDetail_found(DB, flight[s].user, flight[s].tx)
          THEN Done(flight[s], "NotFound")
          ELSE IF ~TransactionSerializer_is_valid(DB, flight[s].user,
                       TransactionDetail_context(DB, flight[s].tx),
                       flight[s].body, flight[s].partial)
               THEN Done(flight[s], "ValidationError")
          ELSE [flight[s] EXCEPT !.pc = "save"])

\* perform_update (both detail views): serializer.save()
UpdateSave(s) ==
    /\ flight[s].op = "update"
    /\ flight[s].pc = "save"
    /\ LET r == Transaction_save(DB, flight[s].user, flight[s].tx, flight[s].instance,
                                 flight[s].body, flight[s].partial)
       IN Statement(r.db, s, Done(flight[s], r.status))

\* ---------------------------------------- the ledger: wallets, amounts
\* Two registered users; requests to the wallet and transaction routes, and
\* the creation of tags.

\* Wallet bodies of the caller u: POST and PUT bodies (every field, or one
\* without the required user and initial_value), PATCH bodies (one field).
LedgerWalletPosts(u) ==
    WalletBodies({WalletFields, {"name", "currency"}},
                 {u}, InitialValues, InputCurrencies \cup {BadCurrency})

LedgerWalletPatches ==
    WalletBodies({{"currency"}, {"initial_value"}},
                 {Null}, InitialValues, InputCurrencies \cup {BadCurrency})

\* Transaction bodies: POST and PUT bodies (note, amount, currency, or one
\* without the required currency), PATCH bodies (one field).
LedgerTxPosts ==
    TxBodies({{"note", "amount", "currency"}, {"note", "amount"}},
             Amounts, InputCurrencies \cup {BadCurrency}, {Null}, {{}}, {Null})

LedgerTxPatches ==
    TxBodies({{"currency"}, {"amount"}},
             Amounts, InputCurrencies \cup {BadCurrency}, {Null}, {{}}, {Null})

\* Bodies of the direct create route: with the wallet id, or without it.
LedgerTxDirectPosts ==
    TxBodies({{"note", "amount", "currency", "wallet"}, {"note", "amount", "currency"}},
             Amounts, InputCurrencies \cup {BadCurrency}, {Null}, {{}}, WalletIds)

\* One tag name, for the tags a wallet's delete must leave alone.
LedgerTagPosts ==
    LabelBodies({{"name"}}, {"trip"}, {TRUE}, {FALSE})

Init ==
    LET db == Register(Register(EmptyDB))
    IN /\ users = db.users
       /\ wallets = db.wallets
       /\ txs = db.txs
       /\ cats = db.cats
       /\ tags = db.tags
       /\ ids = db.ids
       /\ signal = [u \in db.users |-> SignalDone]
       /\ command = NoCommand
       /\ clock = db.now
       /\ flight = NoFlights

Next ==
    \/ \E u \in users : \E body \in LedgerWalletPosts(u) : CreateWallet(u, body)
    \/ \E u \in users, wid \in WalletIds : \E body \in LedgerWalletPosts(u) :
          UpdateWallet(u, wid, body, FALSE)
    \/ \E u \in users, wid \in WalletIds, body \in LedgerWalletPatches :
          UpdateWallet(u, wid, body, TRUE)
    \/ \E u \in users, wid \in WalletIds : DeleteWallet(u, wid)
    \/ \E u \in users, wid \in WalletIds, body \in LedgerTxPosts :
          CreateTransactionNested(u, wid, body)
    \/ \E u \in users, body \in LedgerTxDirectPosts : CreateTransactionDirect(u, body)
    \/ \E u \in users, wid \in WalletIds, tid \in TxIds, body \in LedgerTxPosts :
          UpdateTransactionNested(u, wid, tid, body, FALSE)
    \/ \E u \in users, wid \in WalletIds, tid \in TxIds, body \in LedgerTxPatches :
          UpdateTransactionNested(u, wid, tid, body, TRUE)
    \/ \E u \in users, tid \in TxIds, body \in LedgerTxPosts :
          UpdateTransactionDirect(u, tid, body, FALSE)
    \/ \E u \in users, tid \in TxIds, body \in LedgerTxPatches :
          UpdateTransactionDirect(u, tid, body, TRUE)
    \/ \E u \in users, wid \in WalletIds, tid \in TxIds : DeleteTransactionNested(u, wid, tid)
    \/ \E u \in users, tid \in TxIds : DeleteTransactionDirect(u, tid)
    \/ \E u \in users, body \in LedgerTagPosts : CreateTag(u, body)

Spec == Init /\ [][Next]_vars

\* -------------------------------- the labels: categories, tags, owners
\* Two registered users; wallets of one currency that may change hands,
\* transactions that name categories and tags, and the category and tag
\* routes.

LabelsMaxTxs == 1

LabelsMaxTags == 1

LabelTxIds == 1..LabelsMaxTxs

LabelTagIds == 1..LabelsMaxTags

\* The categories the requests name: each user's first default category.
LabelCatIds == {(u - 1) * NumDefaults + 1 : u \in UserIds}

LabelWalletPosts(u) ==
    WalletBodies({WalletFields}, {u}, {10}, {"usd"})

LabelWalletPatches ==
    WalletBodies({{"user"}}, UserIds, {0}, {""})

LabelTxFields ==
    {{"note", "amount", "currency"} \cup P : P \in SUBSET {"category_id", "tag_ids"}}

LabelTxPosts ==
    TxBodies(LabelTxFields, {5}, {"usd"}, LabelCatIds \cup {Null}, SUBSET LabelTagIds, {Null})

LabelTxDirectPosts ==
    TxBodies({P \cup {"wallet"} : P \in LabelTxFields},
             {5}, {"usd"}, LabelCatIds \cup {Null}, SUBSET LabelTagIds, WalletIds)

LabelTxPatches ==
    TxBodies({{"category_id"}, {"tag_ids"}},
             {5}, {"usd"}, LabelCatIds \cup {Null}, SUBSET LabelTagIds, {Null})

LabelCategoryPatches ==
    LabelBodies({{"is_visible"}, {"is_archived"}}, {""}, BOOLEAN, BOOLEAN)

LabelTagPosts ==
    LabelBodies({{"name"}}, {"trip"}, {TRUE}, {FALSE})

NextLabels ==
    \/ \E u \in users : \E body \in LabelWalletPosts(u) : CreateWallet(u, body)
    \/ \E u \in users, wid \in WalletIds, body \in LabelWalletPatches :
          UpdateWallet(u, wid, body, TRUE)
    \/ \E u \in users, wid \in WalletIds : DeleteWallet(u, wid)
    \/ \E u \in users, wid \in WalletIds, body \in LabelTxPosts :
          ids.tx < LabelsMaxTxs /\ CreateTransactionNested(u, wid, body)
    \/ \E u \in users, body \in LabelTxDirectPosts :
          ids.tx < LabelsMaxTxs /\ CreateTransactionDirect(u, body)
    \/ \E u \in users, wid \in WalletIds, tid \in LabelTxIds, body \in LabelTxPosts :
          UpdateTransactionNested(u, wid, tid, body, FALSE)
    \/ \E u \in users, tid \in LabelTxIds, body \in LabelTxPatches :
          UpdateTransactionDirect(u, tid, body, TRUE)
    \/ \E u \in users, tid \in LabelTxIds : DeleteTransactionDirect(u, tid)
    \/ \E u \in users, cid \in LabelCatIds, body \in LabelCategoryPatches :
          UpdateCategory(u, cid, body, TRUE)
    \/ \E u \in users, cid \in LabelCatIds : ArchiveCategory(u, cid)
    \/ \E u \in users, body \in LabelTagPosts :
          ids.tag < LabelsMaxTags /\ CreateTag(u, body)
    \/ \E u \in users, gid \in LabelTagIds : DeleteTag(u, gid)

SpecLabels == Init /\ [][NextLabels]_vars

\* ------------------------------ the seeding: users, names, uniqueness
\* From the empty database: users register (the receiver seeds each, one
\* template at a time), seed_categories runs beside them, and the category
\* and tag routes create, rename, hide and archive.

SeedCatIds == {1}

SeedCategoryPosts ==
    LabelBodies({{"name"}}, {Templates[1].name}, {TRUE}, {FALSE})

SeedCategoryPatches ==
    LabelBodies({{"name"}, {"is_visible"}}, {Templates[2].name}, {FALSE}, {FALSE})

SeedTagPosts ==
    LabelBodies({{"name"}}, {"trip"}, {TRUE}, {FALSE})

SeedTagPatches ==
    LabelBodies({{"name"}}, {"food"}, {TRUE}, {FALSE})

InitSeed ==
    /\ users = EmptyDB.users
    /\ wallets = EmptyDB.wallets
    /\ txs = EmptyDB.txs
    /\ cats = EmptyDB.cats
    /\ tags = EmptyDB.tags
    /\ ids = EmptyDB.ids
    /\ signal = NoRows
    /\ command = NoCommand
    /\ clock = EmptyDB.now
    /\ flight = NoFlights

NextSeed ==
    \/ CreateUser
    \/ \E u \in users : SignalStep(u)
    \/ \E mode \in {"user", "all", "default"}, username \in UserIds :
          SeedStart(mode, username)
    \/ SeedGet
    \/ SeedCreate
    \/ \E u \in users, body \in SeedCategoryPosts : CreateCategory(u, body)
    \/ \E u \in users, cid \in SeedCatIds, body \in SeedCategoryPatches :
          UpdateCategory(u, cid, body, TRUE)
    \/ \E u \in users, cid \in SeedCatIds : ArchiveCategory(u, cid)
    \/ \E u \in users, body \in SeedTagPosts : CreateTag(u, body)
    \/ \E u \in users, gid \in TagIds, body \in SeedTagPatches :
          UpdateTag(u, gid, body, TRUE)

SpecSeed == InitSeed /\ [][NextSeed]_vars

\* ------------------------------- the seeding alone: users, categories
\* As above without the tags, which no seeding reads or writes.

NextSeedCategories ==
    \/ CreateUser
    \/ \E u \in users : SignalStep(u)
    \/ \E mode \in {"user", "all", "default"}, username \in UserIds :
          SeedStart(mode, username)
    \/ SeedGet
    \/ SeedCreate
    \/ \E u \in users, body \in SeedCategoryPosts : CreateCategory(u, body)
    \/ \E u \in users, cid \in SeedCatIds, body \in SeedCategoryPatches :
          UpdateCategory(u, cid, body, TRUE)
    \/ \E u \in users, cid \in SeedCatIds : ArchiveCategory(u, cid)

SpecSeedCategories == InitSeed /\ [][NextSeedCategories]_vars

\* ------------------------------------ the calendar: dates of creation
\* Two registered users; wallets, transactions created on both routes, and
\* the months and years passing between them.

Years == FirstYear..(FirstYear + MaxYears - 1)

Months == 1..MONTHS

CalendarTxPosts ==
    TxBodies({{"note", "amount", "currency"}}, {5}, {"usd"}, {Null}, {{}}, {Null})

CalendarTxDirectPosts ==
    TxBodies({{"note", "amount", "currency", "wallet"}}, {5}, {"usd"}, {Null}, {{}}, WalletIds)

NextCalendar ==
    \/ \E u \in users : \E body \in LabelWalletPosts(u) : CreateWallet(u, body)
    \/ \E u \in users, wid \in WalletIds, body \in CalendarTxPosts :
          CreateTransactionNested(u, wid, body)
    \/ \E u \in users, body \in CalendarTxDirectPosts : CreateTransactionDirect(u, body)
    \/ \E year \in Years, month \in Months : Tick(year, month)

SpecCalendar == Init /\ [][NextCalendar]_vars

\* ------------------------------- the lists: hidden and archived labels
\* Two registered users; their categories are hidden, shown, archived and
\* restored, and tags are created, hidden, shown and deleted.

FlagPatches ==
    LabelBodies({{"is_visible"}, {"is_archived"}}, {""}, BOOLEAN, BOOLEAN)

VisibilityPatches ==
    LabelBodies({{"is_visible"}}, {""}, BOOLEAN, {FALSE})

ListTagPosts ==
    LabelBodies({{"name"}}, {"trip", "food"}, {TRUE}, {FALSE})

NextLists ==
    \/ \E u \in users, cid \in CatIds, body \in FlagPatches : UpdateCategory(u, cid, body, TRUE)
    \/ \E u \in users, cid \in CatIds : ArchiveCategory(u, cid)
    \/ \E u \in users, body \in ListTagPosts : CreateTag(u, body)
    \/ \E u \in users, gid \in TagIds, body \in VisibilityPatches : UpdateTag(u, gid, body, TRUE)
    \/ \E u \in users, gid \in TagIds : DeleteTag(u, gid)

SpecLists == Init /\ [][NextLists]_vars

\* ------------------------------------------------------------- claims

\* The wallets a user owns, and the transactions a user reaches through them.
OwnWallets(u) == {w \in DOMAIN wallets : wallets[w].user = u}

WalletTxs(w) == {t \in DOMAIN txs : txs[t].wallet = w}

\* The sum of the amounts of a wallet's ledger, taken over every id handed
\* out: an id adds its amount when its transaction is stored under the wallet.
RECURSIVE LedgerSum(_, _)
LedgerSum(w, n) ==
    IF n = 0 THEN 0
    ELSE LedgerSum(w, n - 1)
         + (IF n \in DOMAIN txs /\ txs[n].wallet = w THEN txs[n].amount ELSE 0)

\* Create bodies with every currency of the choices, with and without a
\* category and tags, for the wallet w.
MismatchPosts(w) ==
    TxBodies({{"note", "amount", "currency"} \cup P : P \in SUBSET {"category_id", "wallet"}},
             Amounts, CURRENCIES, {Null} \cup DOMAIN cats, {{}}, {w})

\* Update bodies (PUT with every required field, PATCH with the currency
\* alone) with every currency of the choices.
MismatchUpdates ==
    {<<body, FALSE>> :
        body \in TxBodies({{"note", "amount", "currency"}}, Amounts, CURRENCIES,
                          {Null}, {{}}, {Null})}
    \cup
    {<<body, TRUE>> :
        body \in TxBodies({{"currency"}, {"amount", "currency"}}, Amounts, CURRENCIES,
                          {Null}, {{}}, {Null})}

\* C1: every stored transaction's currency is the currency of its wallet.
C1_CurrencyMatchesWallet ==
    \A t \in DOMAIN txs : txs[t].currency = wallets[txs[t].wallet].currency

\* C2: the balance a read of wallet W reports is W.initial_value plus the sum
\* of the amounts of exactly the transactions stored under W in the current
\* ledger (initial_value when there are none).
C2_BalanceIsInitialPlusLedger ==
    \A w \in DOMAIN wallets :
        LET r == WalletDetail_retrieve(DB, wallets[w].user, w)
        IN /\ r.status = "OK"
           /\ r.data.balance = wallets[w].initial_value + LedgerSum(w, ids.tx)
           /\ WalletTxs(w) = {} => r.data.balance = wallets[w].initial_value

\* C2 witness: two wallets, each with a transaction of an amount that is not
\* zero, so that a sum over the whole ledger differs from each balance.
C2_Witness ==
    \E w1 \in DOMAIN wallets, w2 \in DOMAIN wallets :
        /\ w1 # w2
        /\ WalletTxs(w1) # {}
        /\ WalletTxs(w2) # {}
        /\ get_balance(DB, w1) # wallets[w1].initial_value

\* C3: on both create routes, a create on an owned wallet with a currency
\* other than the wallet's fails with ValidationError, stores nothing and
\* leaves the wallet's balance as it was.
C3_CreateMismatchRejected ==
    \A u \in users : \A w \in OwnWallets(u) : \A body \in MismatchPosts(w) :
        body.currency # wallets[w].currency =>
            LET r == IF Has(body, "wallet")
                     THEN TransactionCreate_create(DB, u, body)
                     ELSE WalletTransactionList_create(DB, u, w, body)
            IN /\ r.status = "ValidationError"
               /\ r.db = DB
               /\ get_balance(r.db, w) = get_balance(DB, w)

\* C3 witness: a wallet that already holds a transaction, on which the create
\* with another currency is refused through both routes.
C3_Witness ==
    \E u \in users : \E w \in OwnWallets(u) : \E body \in MismatchPosts(w) :
        /\ WalletTxs(w) # {}
        /\ body.currency # wallets[w].currency
        /\ Has(body, "wallet")
        /\ TransactionCreate_create(DB, u, body).status = "ValidationError"
        /\ WalletTransactionList_create(DB, u, w,
               [body EXCEPT !.present = @ \ {"wallet"}, !.wallet = Null]).status
             = "ValidationError"

\* C4: on both transaction routes, an update (full or partial) that sets the
\* currency to one other than the currency of the transaction's wallet fails
\* with ValidationError and leaves the transaction as it was.
C4_UpdateMismatchRejected ==
    \A u \in users : \A w \in OwnWallets(u) : \A t \in WalletTxs(w) :
        \A req \in MismatchUpdates :
            req[1].currency # wallets[w].currency =>
                LET direct == TransactionDetail_update(DB, u, t, req[1], req[2])
                    nested == WalletTransactionDetail_update(DB, u, w, t, req[1], req[2])
                IN /\ direct.status = "ValidationError"
                   /\ direct.db = DB
                   /\ nested.status = "ValidationError"
                   /\ nested.db = DB

\* C7: a wallet's delete by its owner removes the wallet and every
\* transaction stored under it, each of which is NotFound afterwards on both
\* transaction routes; the other wallets, their transactions, the categories
\* and the tags stay as they were.
C7_DeleteWalletCascades ==
    \A u \in users : \A w \in OwnWallets(u) :
        LET r == WalletDetail_destroy(DB, u, w)
        IN /\ r.status = "NoContent"
           /\ w \notin DOMAIN r.db.wallets
           /\ \A t \in WalletTxs(w) :
                 /\ t \notin DOMAIN r.db.txs
                 /\ \A v \in users :
                       /\ TransactionDetail_retrieve(r.db, v, t).status = "NotFound"
                       /\ \A x \in WalletIds :
                             WalletTransactionDetail_retrieve(r.db, v, x, t).status
                               = "NotFound"
           /\ r.db.wallets = Restrict(wallets, DOMAIN wallets \ {w})
           /\ r.db.txs = Restrict(txs, DOMAIN txs \ WalletTxs(w))
           /\ r.db.cats = cats
           /\ r.db.tags = tags
           /\ r.db.users = users

\* C7 witness: the wallet deleted holds two transactions, or holds one while
\* another wallet holds the other, and its owner has a category and a tag.
C7_Witness ==
    \E u \in users : \E w \in OwnWallets(u) :
        /\ WalletTxs(w) # {}
        /\ \E c \in DOMAIN cats : cats[c].user = u
        /\ \E g \in DOMAIN tags : tags[g].user = u
        /\ Cardinality(DOMAIN txs) = MaxTxs
        /\ Cardinality(DOMAIN wallets) = MaxWallets
        /\ WalletDetail_destroy(DB, u, w).status = "NoContent"

\* The user a transaction belongs to: the owner of its wallet.
TxOwner(t) == wallets[txs[t].wallet].user

\* C5: every transaction's category (if set) and every one of its tags is
\* owned by the user who owns the transaction's wallet.
C5_LabelsOwnedByWalletOwner ==
    \A t \in DOMAIN txs :
        /\ txs[t].category # Null => cats[txs[t].category].user = TxOwner(t)
        /\ \A g \in txs[t].tags : tags[g].user = TxOwner(t)

\* Update bodies the isolation claim tries on another user's records.
IsolationWalletUpdates(u) ==
    {<<body, FALSE>> : body \in LabelWalletPosts(u)}
    \cup {<<body, TRUE>> : body \in LabelWalletPatches}

IsolationTxUpdates ==
    {<<body, FALSE>> : body \in LabelTxPosts} \cup {<<body, TRUE>> : body \in LabelTxPatches}

IsolationLabelUpdates ==
    {<<body, FALSE>> : body \in LabelTagPosts}
    \cup {<<body, TRUE>> : body \in LabelCategoryPatches}

\* C6: a get, update or delete by user A of a wallet, transaction (on either
\* route), category or tag of another user answers NotFound and leaves the
\* database as it was: the very response A gets for an id never handed out.
C6_CrossOwnerNotFound ==
    \A a \in users :
        /\ \A w \in DOMAIN wallets \ OwnWallets(a) :
              LET none == ids.wallet + 1
              IN /\ WalletDetail_retrieve(DB, a, w) = Response("NotFound", DB)
                 /\ WalletDetail_retrieve(DB, a, none) = Response("NotFound", DB)
                 /\ WalletDetail_destroy(DB, a, w) = Response("NotFound", DB)
                 /\ WalletDetail_destroy(DB, a, none) = Response("NotFound", DB)
                 /\ \A req \in IsolationWalletUpdates(a) :
                       /\ WalletDetail_update(DB, a, w, req[1], req[2])
                            = Response("NotFound", DB)
                       /\ WalletDetail_update(DB, a, none, req[1], req[2])
                            = Response("NotFound", DB)
        /\ \A t \in {x \in DOMAIN txs : TxOwner(x) # a} :
              LET none == ids.tx + 1
              IN /\ TransactionDetail_retrieve(DB, a, t) = Response("NotFound", DB)
                 /\ TransactionDetail_retrieve(DB, a, none) = Response("NotFound", DB)
                 /\ TransactionDetail_destroy(DB, a, t) = Response("NotFound", DB)
                 /\ TransactionDetail_destroy(DB, a, none) = Response("NotFound", DB)
                 /\ \A req \in IsolationTxUpdates :
                       /\ TransactionDetail_update(DB, a, t, req[1], req[2])
                            = Response("NotFound", DB)
                       /\ TransactionDetail_update(DB, a, none, req[1], req[2])
                            = Response("NotFound", DB)
                 /\ \A w \in 1..(ids.wallet + 1) :
                       /\ WalletTransactionDetail_retrieve(DB, a, w, t)
                            = Response("NotFound", DB)
                       /\ WalletTransactionDetail_destroy(DB, a, w, t)
                            = Response("NotFound", DB)
                       /\ WalletTransactionDetail_retrieve(DB, a, w, none)
                            = Response("NotFound", DB)
                       /\ WalletTransactionDetail_destroy(DB, a, w, none)
                            = Response("NotFound", DB)
                       /\ \A req \in IsolationTxUpdates :
                             /\ WalletTransactionDetail_update(DB, a, w, t, req[1], req[2])
                                  = Response("NotFound", DB)
                             /\ WalletTransactionDetail_update(DB, a, w, none, req[1], req[2])
                                  = Response("NotFound", DB)
        /\ \A c \in {x \in DOMAIN cats : cats[x].user # a} :
              LET none == ids.cat + 1
              IN /\ UserCategoryDetail_retrieve(DB, a, c) = Response("NotFound", DB)
                 /\ UserCategoryDetail_retrieve(DB, a, none) = Response("NotFound", DB)
                 /\ UserCategoryDetail_destroy(DB, a, c) = Response("NotFound", DB)
                 /\ UserCategoryDetail_destroy(DB, a, none) = Response("NotFound", DB)
                 /\ \A req \in IsolationLabelUpdates :
                       /\ UserCategoryDetail_update(DB, a, c, req[1], req[2])
                            = Response("NotFound", DB)
                       /\ UserCategoryDetail_update(DB, a, none, req[1], req[2])
                            = Response("NotFound", DB)
        /\ \A g \in {x \in DOMAIN tags : tags[x].user # a} :
              LET none == ids.tag + 1
              IN /\ UserTagDetail_retrieve(DB, a, g) = Response("NotFound", DB)
                 /\ UserTagDetail_retrieve(DB, a, none) = Response("NotFound", DB)
                 /\ UserTagDetail_destroy(DB, a, g) = Response("NotFound", DB)
                 /\ UserTagDetail_destroy(DB, a, none) = Response("NotFound", DB)
                 /\ \A req \in IsolationLabelUpdates :
                       /\ UserTagDetail_update(DB, a, g, req[1], req[2])
                            = Response("NotFound", DB)
                       /\ UserTagDetail_update(DB, a, none, req[1], req[2])
                            = Response("NotFound", DB)

\* C6 witness: user A owns a wallet while another user owns a wallet with a
\* transaction in it that carries a category and a tag of that user.
C6_Witness ==
    \E a \in users : \E t \in DOMAIN txs :
        /\ OwnWallets(a) # {}
        /\ TxOwner(t) # a
        /\ txs[t].category # Null
        /\ cats[txs[t].category].user # a
        /\ \E g \in txs[t].tags : tags[g].user # a
        /\ TransactionDetail_retrieve(DB, a, t).status = "NotFound"
        /\ \E w \in OwnWallets(a) :
              WalletTransactionDetail_retrieve(DB, a, w, t).status = "NotFound"

\* C8: the category delete of the API keeps the row and sets is_archived and
\* nothing else: no transaction changes, so each one that named the category
\* still reports it, and the category is in neither list of its owner.
C8_ArchiveKeepsRecord ==
    \A c \in DOMAIN cats :
        LET u == cats[c].user
            r == UserCategoryDetail_destroy(DB, u, c)
        IN /\ r.status = "NoContent"
           /\ r.db.cats = [cats EXCEPT ![c].is_archived = TRUE]
           /\ r.db.txs = txs
           /\ r.db.wallets = wallets
           /\ r.db.tags = tags
           /\ \A include_hidden \in BOOLEAN :
                 c \notin UserCategoryList_get_queryset(r.db, u, include_hidden)
           /\ \A t \in DOMAIN txs :
                 txs[t].category = c =>
                    LET get == TransactionDetail_retrieve(r.db, TxOwner(t), t)
                    IN get.status = "OK" /\ get.data.category = c

\* C8 witness: a category that is listed (not archived, visible) and named by
\* a transaction of its owner is archived.
C8_Witness ==
    \E c \in DOMAIN cats : \E t \in DOMAIN txs :
        /\ txs[t].category = c
        /\ TxOwner(t) = cats[c].user
        /\ c \in UserCategoryList_get_queryset(DB, cats[c].user, FALSE)
        /\ UserCategoryDetail_destroy(DB, cats[c].user, c).db.cats[c].is_archived

\* C9: no request makes a transaction newly reference a category that is
\* archived when the request arrives: a transaction that references an
\* archived category after a step referenced it before the step.
C9_ArchivedNotNewlyReferenced ==
    [][\A t \in DOMAIN txs' :
          (txs'[t].category # Null /\ cats[txs'[t].category].is_archived)
             => (t \in DOMAIN txs /\ txs[t].category = txs'[t].category)]_vars

\* C10: no owner has two categories of one name, nor two tags of one name,
\* whatever the rows' visibility or archive flag.
C10_NamesUniquePerOwner ==
    /\ \A c1 \in DOMAIN cats, c2 \in DOMAIN cats :
          (cats[c1].user = cats[c2].user /\ cats[c1].name = cats[c2].name) => c1 = c2
    /\ \A g1 \in DOMAIN tags, g2 \in DOMAIN tags :
          (tags[g1].user = tags[g2].user /\ tags[g1].name = tags[g2].name) => g1 = g2

\* C10 witness: two owners hold a category of one name and a tag of one name;
\* an owner's archived category and hidden category each refuse a second row
\* of their name; and a receiver lost the race for a template's name.
C10_Witness ==
    /\ \E c1 \in DOMAIN cats, c2 \in DOMAIN cats :
          cats[c1].user # cats[c2].user /\ cats[c1].name = cats[c2].name
    /\ \E g1 \in DOMAIN tags, g2 \in DOMAIN tags :
          tags[g1].user # tags[g2].user /\ tags[g1].name = tags[g2].name
    /\ \E c \in DOMAIN cats :
          /\ cats[c].is_archived
          /\ UserCategoryList_create(DB, cats[c].user,
                 LabelBody({"name"}, cats[c].name, TRUE, FALSE)).status = "IntegrityError"
    /\ \E c \in DOMAIN cats :
          /\ ~cats[c].is_visible
          /\ \E d \in DOMAIN cats \ {c} :
                UserCategoryDetail_update(DB, cats[c].user, d,
                    LabelBody({"name"}, cats[c].name, TRUE, FALSE), TRUE).status
                  = "IntegrityError"
    /\ \E u \in DOMAIN signal : signal[u].raised

\* C11: a category (tag) create with a name its caller already holds ends in
\* Conflict and leaves the database as it was; with a name only other owners
\* hold it succeeds.
C11_DuplicateCreateConflict ==
    /\ \A c \in DOMAIN cats : \A u \in users :
          LET r == UserCategoryList_create(DB, u, LabelBody({"name"}, cats[c].name, TRUE, FALSE))
          IN IF \E d \in DOMAIN cats : cats[d].user = u /\ cats[d].name = cats[c].name
             THEN r.status = "Conflict" /\ r.db = DB
             ELSE r.status = "Created"
    /\ \A g \in DOMAIN tags : \A u \in users :
          LET r == UserTagList_create(DB, u, LabelBody({"name"}, tags[g].name, TRUE, FALSE))
          IN IF \E h \in DOMAIN tags : tags[h].user = u /\ tags[h].name = tags[g].name
             THEN r.status = "Conflict" /\ r.db = DB
             ELSE r.status = "Created"

\* The ways to run seed_categories, and the categories of a user in a database.
SeedRuns == {<<"default", Null>>, <<"all", Null>>} \cup {<<"user", n>> : n \in UserIds}

CategoriesOf(db, u) == {c \in DOMAIN db.cats : db.cats[c].user = u}

\* C12: a run of the seed leaves every existing category as it was, creates
\* for each selected owner only template names the owner lacked (whatever the
\* flags of the rows that hold the others) and leaves the owner with every
\* template name once; a second run, in any mode, then creates nothing and
\* changes nothing.
C12_SeedIdempotent ==
    \A first \in SeedRuns : \A second \in SeedRuns :
        LET once == Command_handle(DB, first[1], first[2])
            twice == Command_handle(once, second[1], second[2])
            selected == Command_users(DB, first[1], first[2])
        IN /\ \A c \in DOMAIN cats : once.cats[c] = cats[c]
           /\ \A c \in DOMAIN once.cats \ DOMAIN cats :
                 ~\E d \in DOMAIN cats :
                     cats[d].user = once.cats[c].user /\ cats[d].name = once.cats[c].name
           /\ \A k \in 1..Len(selected) : \A i \in 1..NumDefaults :
                 Cardinality({c \in CategoriesOf(once, selected[k]) :
                                 once.cats[c].name = Templates[i].name}) = 1
           /\ \A k \in 1..Len(selected) :
                 /\ CategoriesOf(twice, selected[k]) = CategoriesOf(once, selected[k])
                 /\ \A c \in CategoriesOf(once, selected[k]) : twice.cats[c] = once.cats[c]
           /\ Command_handle(once, first[1], first[2]) = once

\* C12 witness: an owner whose template category is archived and hidden and
\* who lacks another template name, while another owner holds that name: the
\* first run for the owner creates the missing name and the second nothing.
C12_Witness ==
    \E u \in users : \E c \in CategoriesOf(DB, u) : \E i \in 1..NumDefaults :
        /\ cats[c].is_archived
        /\ ~cats[c].is_visible
        /\ \E j \in 1..NumDefaults : cats[c].name = Templates[j].name
        /\ ~Category_duplicate(DB, Null, u, Templates[i].name)
        /\ \E d \in DOMAIN cats : cats[d].user # u /\ cats[d].name = Templates[i].name
        /\ LET once == Command_handle(DB, "user", u)
           IN /\ Cardinality(CategoriesOf(once, u)) = Cardinality(CategoriesOf(DB, u)) + 1
              /\ once.cats[c] = cats[c]
              /\ Command_handle(once, "all", Null) = Command_handle(DB, "all", Null)

\* C13: the save of a new owner leaves the owner with exactly one category
\* per template, of the template's name, icon and color, visible and not
\* archived, and every other category as it was; the save of an owner who
\* exists creates nothing.
C13_NewOwnerGetsTemplates ==
    LET new == ids.user + 1
        r == User_save(DB, new)
    IN /\ r.status = "Returned"
       /\ new \in r.db.users
       /\ Cardinality(CategoriesOf(r.db, new)) = NumDefaults
       /\ \A i \in 1..NumDefaults :
             \E c \in CategoriesOf(r.db, new) : r.db.cats[c] = TemplateCategory(new, i)
       /\ \A c \in DOMAIN cats : r.db.cats[c] = cats[c]
       /\ DOMAIN r.db.cats \ DOMAIN cats = CategoriesOf(r.db, new)
       /\ \A u \in users :
             LET again == User_save(DB, u)
             IN again.status = "Returned" /\ again.db = DB

\* C13 witness: an owner exists who holds fewer categories than templates,
\* one of them hidden or renamed onto another template's name; a new owner is
\* saved beside them, and the first owner is saved again.
C13_Witness ==
    \E u \in users :
        /\ Cardinality(CategoriesOf(DB, u)) < NumDefaults
        /\ \E c \in CategoriesOf(DB, u) :
              ~cats[c].is_visible \/ cats[c].name # Templates[1].name
        /\ Cardinality(CategoriesOf(User_save(DB, ids.user + 1).db, ids.user + 1)) = NumDefaults
        /\ User_save(DB, u).db.cats = cats

\* C14: no failure of a create leaves the receiver: whatever happens while an
\* owner's default categories are seeded, the save of the owner does not raise.
C14_SeedingFailureSwallowed ==
    \A u \in DOMAIN signal : u \in users /\ ~signal[u].raised

\* The outcomes that refuse a request: the three the claim names, and the
\* IntegrityError in which a duplicate name ends (see C11).
Refusals == {"NotFound", "ValidationError", "Conflict", "IntegrityError"}

Refused(r) == r.status \in Refusals

\* A response that, when it refuses, holds the database of the request.
Kept(r) == Refused(r) => r.db = DB

\* The requests tried in each state: wallet, transaction, category and tag
\* bodies that are valid, incomplete, of another currency than the wallet's
\* (an unknown one for wallets), and that name owned, unowned and missing
\* wallets, categories and tags.
AnyWalletBodies ==
    WalletBodies({WalletFields, {"name", "currency"}, {"currency"}, {"user"}},
                 UserIds \cup {MaxUsers + 1}, {0}, {"usd", "eur", BadCurrency})

AnyTxBodies ==
    TxBodies({B \cup P : B \in {{"note", "amount", "currency"}, {}},
                         P \in SUBSET {"category_id", "tag_ids", "wallet"}},
             {5}, {"usd", "eur"}, LabelCatIds \cup {Null},
             SUBSET LabelTagIds, WalletIds \cup {Null})

AnyLabelBodies ==
    LabelBodies({{"name"}, {"is_visible"}, {}}, {"trip", Templates[1].name, Templates[2].name},
                {FALSE}, {FALSE})

\* C15: a request that is refused leaves the whole database as it was.
C15_RefusedWritesNothing ==
    \A u \in users :
        /\ \A body \in AnyWalletBodies :
              /\ Kept(WalletList_create(DB, u, body))
              /\ \A w \in WalletIds : \A partial \in BOOLEAN :
                    Kept(WalletDetail_update(DB, u, w, body, partial))
        /\ \A w \in WalletIds :
              /\ WalletDetail_retrieve(DB, u, w).db = DB
              /\ Kept(WalletDetail_destroy(DB, u, w))
        /\ \A body \in AnyTxBodies :
              /\ Kept(TransactionCreate_create(DB, u, body))
              /\ \A w \in WalletIds : Kept(WalletTransactionList_create(DB, u, w, body))
              /\ \A t \in LabelTxIds : \A partial \in BOOLEAN :
                    /\ Kept(TransactionDetail_update(DB, u, t, body, partial))
                    /\ \A w \in WalletIds :
                          Kept(WalletTransactionDetail_update(DB, u, w, t, body, partial))
        /\ \A t \in LabelTxIds :
              /\ TransactionDetail_retrieve(DB, u, t).db = DB
              /\ Kept(TransactionDetail_destroy(DB, u, t))
              /\ \A w \in WalletIds :
                    /\ WalletTransactionDetail_retrieve(DB, u, w, t).db = DB
                    /\ Kept(WalletTransactionDetail_destroy(DB, u, w, t))
        /\ \A body \in AnyLabelBodies :
              /\ Kept(UserCategoryList_create(DB, u, body))
              /\ Kept(UserTagList_create(DB, u, body))
              /\ \A partial \in BOOLEAN :
                    /\ \A c \in CatIds : Kept(UserCategoryDetail_update(DB, u, c, body, partial))
                    /\ \A g \in TagIds : Kept(UserTagDetail_update(DB, u, g, body, partial))
        /\ \A c \in CatIds : Kept(UserCategoryDetail_destroy(DB, u, c))
        /\ \A g \in TagIds : Kept(UserTagDetail_destroy(DB, u, g))

\* C15 witness: with a transaction stored, the direct create is refused for
\* a missing wallet id (ValidationError) and an unowned one (NotFound), and a
\* create and an update are refused for an unowned category and an unowned tag.
C15_Witness ==
    \E u \in users : \E w \in OwnWallets(u) : \E t \in WalletTxs(w) :
      \E x \in DOMAIN wallets \ OwnWallets(u) :
        \E c \in DOMAIN cats : \E g \in DOMAIN tags :
            /\ cats[c].user # u
            /\ tags[g].user # u
            /\ TransactionCreate_create(DB, u,
                   TxBody({"note", "amount", "currency"}, 5, "usd", Null, {}, Null)).status
                 = "ValidationError"
            /\ TransactionCreate_create(DB, u,
                   TxBody({"note", "amount", "currency", "wallet"}, 5, "usd", Null, {}, x)).status
                 = "NotFound"
            /\ WalletTransactionList_create(DB, u, w,
                   TxBody({"note", "amount", "currency", "category_id"}, 5, "usd", c, {}, Null)).status
                 = "ValidationError"
            /\ TransactionDetail_update(DB, u, t,
                   TxBody({"tag_ids"}, 5, "usd", Null, {g}, Null), TRUE).status
                 = "ValidationError"

\* C16: the list of an owned wallet for a month and a year holds exactly the
\* wallet's transactions created in that month of that year; a month left
\* out is the current month and a year left out the current year, each on
\* its own.
C16_ListByWalletMonthYear ==
    \A u \in users : \A w \in OwnWallets(u) :
        \A month \in Months \cup {Null} : \A year \in Years \cup {Null} :
            LET r == WalletTransactionList_get_queryset(DB, u, w, month, year)
            IN /\ r.status = "OK"
               /\ r.data \subseteq WalletTxs(w)
               /\ \A t \in WalletTxs(w) :
                     t \in r.data <=>
                        /\ (IF month = Null THEN txs[t].date.month = clock.month
                                            ELSE txs[t].date.month = month)
                        /\ (IF year = Null THEN txs[t].date.year = clock.year
                                           ELSE txs[t].date.year = year)

\* C16 witness: a wallet holds two transactions created in the same month of
\* two years, the current month is another one, other wallets exist, and
\* the list for that month and the first year holds the first alone.
C16_Witness ==
    \E u \in users : \E w \in OwnWallets(u) : \E a \in WalletTxs(w) : \E b \in WalletTxs(w) :
        /\ txs[a].date.month = txs[b].date.month
        /\ txs[a].date.year # txs[b].date.year
        /\ clock.month # txs[a].date.month
        /\ DOMAIN wallets # {w}
        /\ WalletTransactionList_get_queryset(DB, u, w, txs[a].date.month, txs[a].date.year).data
             = {a}
        /\ WalletTransactionList_get_queryset(DB, u, w, txs[a].date.month, Null).data = {b}
        /\ WalletTransactionList_get_queryset(DB, u, w, Null, Null).data = {}

\* The update bodies of the category claim: a full one (note, amount,
\* currency) or a partial one (nothing else), with category_id added or not.
CategoryUpdate(partial, P, category_id) ==
    TxBody((IF partial THEN {} ELSE {"note", "amount", "currency"}) \cup P,
           5, "usd", category_id, {}, Null)

\* C17: on both routes, for full and partial updates by the owner: a
\* category_id of null clears the category, a category_id left out leaves
\* it, and an owned category's id sets it.
C17_CategoryNullOmittedSet ==
    \A t \in DOMAIN txs : \A partial \in BOOLEAN :
        LET u == TxOwner(t)
            w == txs[t].wallet
            Both(body) == {TransactionDetail_update(DB, u, t, body, partial),
                           WalletTransactionDetail_update(DB, u, w, t, body, partial)}
        IN /\ \A r \in Both(CategoryUpdate(partial, {"category_id"}, Null)) :
                 r.status = "OK" /\ r.db.txs[t].category = Null
           /\ \A r \in Both(CategoryUpdate(partial, {}, Null)) :
                 r.status = "OK" /\ r.db.txs[t].category = txs[t].category
           /\ \A c \in DOMAIN cats :
                 cats[c].user = u =>
                    \A r \in Both(CategoryUpdate(partial, {"category_id"}, c)) :
                        r.status = "OK" /\ r.db.txs[t].category = c

\* C17 witness: a transaction with a category whose owner has another
\* category: the three updates leave it with none, the same and the other.
C17_Witness ==
    \E t \in DOMAIN txs : \E c \in DOMAIN cats :
        /\ txs[t].category # Null
        /\ txs[t].category # c
        /\ cats[c].user = TxOwner(t)
        /\ TransactionDetail_update(DB, TxOwner(t), t,
               CategoryUpdate(FALSE, {"category_id"}, Null), FALSE).db.txs[t].category = Null
        /\ TransactionDetail_update(DB, TxOwner(t), t,
               CategoryUpdate(FALSE, {}, Null), FALSE).db.txs[t].category = txs[t].category
        /\ TransactionDetail_update(DB, TxOwner(t), t,
               CategoryUpdate(TRUE, {"category_id"}, c), TRUE).db.txs[t].category = c

\* A body that also supplies created_by (no field of the serializer).
WithCreator(body, creator) ==
    [f \in DOMAIN body \cup {"created_by"} |->
        IF f = "created_by" THEN creator
        ELSE IF f = "present" THEN body.present \cup {"created_by"}
        ELSE body[f]]

\* Bodies that supply a wallet and a creator beside the fields of a
\* transaction: for creates and full updates, and for partial updates.
ForeignFieldBodies(fields) ==
    {WithCreator(body, creator) :
        body \in TxBodies({fields \cup P : P \in SUBSET {"wallet"}},
                          {5}, {"usd"}, {Null}, {{}}, WalletIds),
        creator \in UserIds}

\* C18: a create that succeeds stores the transaction with the caller as its
\* creator and the resolved wallet (of the path, or the owned one the direct
\* route's body names) as its wallet, whatever wallet and creator the body
\* supplies; no update changes a transaction's wallet or creator.
C18_WalletAndCreatorFixed ==
    \A u \in users :
        /\ \A body \in ForeignFieldBodies({"note", "amount", "currency"}) :
              LET new == ids.tx + 1
                  direct == TransactionCreate_create(DB, u, body)
              IN /\ \A w \in OwnWallets(u) :
                       LET nested == WalletTransactionList_create(DB, u, w, body)
                       IN /\ nested.status = "Created"
                          /\ nested.db.txs[new].wallet = w
                          /\ nested.db.txs[new].created_by = u
                 /\ direct.status = "Created" =>
                       /\ body.wallet \in OwnWallets(u)
                       /\ direct.db.txs[new].wallet = body.wallet
                       /\ direct.db.txs[new].created_by = u
                 /\ (Has(body, "wallet") /\ body.wallet \in OwnWallets(u))
                       => direct.status = "Created"
        /\ \A t \in DOMAIN txs : \A partial \in BOOLEAN :
              \A body \in ForeignFieldBodies(IF partial THEN {"amount"}
                                             ELSE {"note", "amount", "currency"}) :
                 \A r \in {TransactionDetail_update(DB, u, t, body, partial)}
                          \cup {WalletTransactionDetail_update(DB, u, w, t, body, partial) :
                                   w \in WalletIds} :
                    t \in DOMAIN r.db.txs
                    /\ r.db.txs[t].wallet = txs[t].wallet
                    /\ r.db.txs[t].created_by = txs[t].created_by

\* C18 witness: a caller with two wallets, one holding a transaction; a
\* create on one wallet and an update of the transaction, each with a body
\* naming the other wallet and another user as creator, succeed.
C18_Witness ==
    \E u \in users : \E w \in OwnWallets(u) : \E x \in OwnWallets(u) : \E t \in WalletTxs(w) :
      \E v \in users :
        LET body == WithCreator(
                        TxBody({"note", "amount", "currency", "wallet"}, 5, "usd", Null, {}, x), v)
        IN /\ x # w
           /\ v # u
           /\ WalletTransactionList_create(DB, u, w, body).status = "Created"
           /\ WalletTransactionDetail_update(DB, u, w, t, body, FALSE).status = "OK"
           /\ TransactionDetail_update(DB, u, t, body, FALSE).status = "OK"

\* C19: a category is in its owner's list exactly when it is not archived
\* and, unless hidden ones are asked for, visible; it is in no other user's
\* list.  A tag is in its owner's list exactly when it is visible or hidden
\* ones are asked for.
C19_ListsFilterHiddenArchived ==
    \A u \in users : \A include_hidden \in BOOLEAN :
        LET categories == UserCategoryList_get_queryset(DB, u, include_hidden)
            labels == UserTagList_get_queryset(DB, u, include_hidden)
        IN /\ categories \subseteq DOMAIN cats
           /\ \A c \in DOMAIN cats :
                 c \in categories <=>
                    /\ cats[c].user = u
                    /\ cats[c].is_archived = FALSE
                    /\ (include_hidden = FALSE => cats[c].is_visible = TRUE)
           /\ labels \subseteq DOMAIN tags
           /\ \A g \in DOMAIN tags :
                 g \in labels <=>
                    /\ tags[g].user = u
                    /\ (include_hidden = FALSE => tags[g].is_visible = TRUE)

\* C19 witness: an owner with a listed category, a hidden one and one that
\* is archived while visible, and with a visible tag and a hidden one.
C19_Witness ==
    \E u \in users :
        /\ \E c \in CategoriesOf(DB, u) : cats[c].is_archived /\ cats[c].is_visible
        /\ \E c \in CategoriesOf(DB, u) : ~cats[c].is_archived /\ ~cats[c].is_visible
        /\ \E g \in DOMAIN tags : tags[g].user = u /\ tags[g].is_visible
        /\ \E g \in DOMAIN tags : tags[g].user = u /\ ~tags[g].is_visible
        /\ UserCategoryList_get_queryset(DB, u, TRUE) # UserCategoryList_get_queryset(DB, u, FALSE)
        /\ UserTagList_get_queryset(DB, u, TRUE) # UserTagList_get_queryset(DB, u, FALSE)

\* C20: a wallet create with a name, an initial value and a currency of the
\* choices succeeds for every caller; the new wallet has an id no wallet
\* had, is the caller's, and is in the caller's list and in no other's.
C20_CreateWalletSucceeds ==
    \A u \in users : \A currency \in CURRENCIES : \A initial_value \in InitialValues :
        LET body == WalletBody({"name", "initial_value", "currency"}, Null,
                               initial_value, currency)
            r == WalletList_create(DB, u, body)
            new == DOMAIN r.db.wallets \ DOMAIN wallets
        IN /\ r.status = "Created"
           /\ Cardinality(new) = 1
           /\ \A w \in new :
                 /\ r.db.wallets[w].user = u
                 /\ w \in WalletList_get_queryset(r.db, u)
                 /\ \A v \in users \ {u} : w \notin WalletList_get_queryset(r.db, v)

\* --------------------------------- the dates: updates after the creation
\* As the calendar with one transaction, and with updates on both routes
\* (full and partial) whose bodies supply a date beside the fields of the
\* serializer.

\* A body that also supplies date (a read-only field of the serializer:
\* Transaction.date is auto_now_add, hence not editable).
WithDate(body, date) ==
    [f \in DOMAIN body \cup {"date"} |->
        IF f = "date" THEN date
        ELSE IF f = "present" THEN body.present \cup {"date"}
        ELSE body[f]]

\* The dates the bodies supply: the first month, and the last one.
SuppliedDates == {Epoch, [year |-> FirstYear + MaxYears - 1, month |-> MONTHS]}

DateTxPuts ==
    {WithDate(body, date) :
        body \in TxBodies({{"note", "amount", "currency"}}, {-3}, {"usd"}, {Null}, {{}}, {Null}),
        date \in SuppliedDates}

DateTxPatches ==
    {WithDate(body, date) :
        body \in TxBodies({{}, {"amount"}}, {5}, {"usd"}, {Null}, {{}}, {Null}),
        date \in SuppliedDates}

NextDates ==
    \/ \E u \in users : \E body \in LabelWalletPosts(u) : CreateWallet(u, body)
    \/ \E u \in users, wid \in WalletIds, body \in DateTxPuts :
          ids.tx < LabelsMaxTxs /\ CreateTransactionNested(u, wid, body)
    \/ \E u \in users, body \in CalendarTxDirectPosts :
          ids.tx < LabelsMaxTxs /\ CreateTransactionDirect(u, body)
    \/ \E u \in users, wid \in WalletIds, tid \in LabelTxIds, body \in DateTxPuts :
          UpdateTransactionNested(u, wid, tid, body, FALSE)
    \/ \E u \in users, wid \in WalletIds, tid \in LabelTxIds, body \in DateTxPatches :
          UpdateTransactionNested(u, wid, tid, body, TRUE)
    \/ \E u \in users, tid \in LabelTxIds, body \in DateTxPuts :
          UpdateTransactionDirect(u, tid, body, FALSE)
    \/ \E u \in users, tid \in LabelTxIds, body \in DateTxPatches :
          UpdateTransactionDirect(u, tid, body, TRUE)
    \/ \E year \in Years, month \in Months : Tick(year, month)

SpecDates == Init /\ [][NextDates]_vars

\* C21: a transaction's date is the server's date at its creation, whatever
\* date the create request supplies, and no later step (an update on either
\* route, full or partial, supplying a date or not) changes it.
C21_DateSetOnce ==
    [][/\ \A t \in DOMAIN txs' \ DOMAIN txs : txs'[t].date = clock
       /\ \A t \in DOMAIN txs : t \in DOMAIN txs' /\ txs'[t].date = txs[t].date]_vars

\* C21 witness: a transaction created in an earlier month whose amount a
\* full update changed, on which a full and a partial update that supply
\* another date than its own succeed on both routes.
C21_Witness ==
    \E t \in DOMAIN txs : \E put \in DateTxPuts : \E patch \in DateTxPatches :
        /\ txs[t].date # clock
        /\ txs[t].amount = -3
        /\ put.date # txs[t].date
        /\ patch.date # txs[t].date
        /\ TransactionDetail_update(DB, TxOwner(t), t, put, FALSE).status = "OK"
        /\ TransactionDetail_update(DB, TxOwner(t), t, patch, TRUE).status = "OK"
        /\ WalletTransactionDetail_update(DB, TxOwner(t), txs[t].wallet, t, put, FALSE).status
             = "OK"
        /\ WalletTransactionDetail_update(DB, TxOwner(t), txs[t].wallet, t, patch, TRUE).status
             = "OK"

\* ------------------------------ the race: a wallet's delete and writers
\* Two registered users and workers that serve, statement by statement, the
\* delete of a wallet beside creates and updates of transactions on both
\* routes; wallets are created in one step.

\* Full updates (PUT) and partial ones (PATCH).
RaceUpdates ==
    {<<body, FALSE>> :
        body \in TxBodies({{"note", "amount", "currency"}}, {-3}, {"usd"}, {Null}, {{}}, {Null})}
    \cup {<<body, TRUE>> :
              body \in TxBodies({{"amount"}}, {-3}, {"usd"}, {Null}, {{}}, {Null})}

NextRace ==
    \/ \E u \in users : \E body \in LabelWalletPosts(u) : CreateWallet(u, body)
    \/ \E s \in Workers, u \in users, wid \in WalletIds : DestroyWalletBegin(s, u, wid)
    \/ \E s \in Workers : DestroyWalletLookup(s)
    \/ \E s \in Workers : DestroyWalletCollect(s)
    \/ \E s \in Workers : DestroyWalletDelete(s)
    \/ \E s \in Workers, u \in users, wid \in WalletIds, body \in CalendarTxPosts :
          CreateNestedBegin(s, u, wid, body)
    \/ \E s \in Workers, u \in users, body \in CalendarTxDirectPosts :
          CreateDirectBegin(s, u, body)
    \/ \E s \in Workers : CreateLookup(s)
    \/ \E s \in Workers : CreateSave(s)
    \/ \E s \in Workers, u \in users, wid \in WalletIds, tid \in TxIds, req \in RaceUpdates :
          UpdateNestedBegin(s, u, wid, tid, req[1], req[2])
    \/ \E s \in Workers, u \in users, tid \in TxIds, req \in RaceUpdates :
          UpdateDirectBegin(s, u, tid, req[1], req[2])
    \/ \E s \in Workers : UpdateDirectContext(s)
    \/ \E s \in Workers : UpdateSave(s)

SpecRace == Init /\ [][NextRace]_vars

\* C22: whatever the interleaving of a wallet's delete with creates and
\* updates of transactions, every stored transaction's wallet is stored: no
\* wallet is gone while a transaction of it remains.
C22_NoTransactionWithoutWallet ==
    \A t \in DOMAIN txs : txs[t].wallet \in DOMAIN wallets

\* C22 witness: a wallet's delete went through between the lookup and the
\* INSERT of a create on the wallet, which the database then refused; the
\* wallet is gone and a transaction of another wallet is stored.
C22_Witness ==
    \E a \in Workers, b \in Workers :
        /\ flight[a].op = "destroy"
        /\ flight[a].status = "NoContent"
        /\ flight[b].op = "create"
        /\ flight[b].status = "IntegrityError"
        /\ flight[b].wallet = flight[a].wallet
        /\ flight[a].wallet \notin DOMAIN wallets
        /\ txs # NoRows

\* The update requests of the access claim: a full and a partial one that
\* the serializer accepts on every transaction.
AccessUpdates ==
    {<<TxBody({"note", "amount", "currency"}, 5, "usd", Null, {}, Null), FALSE>>,
     <<TxBody({"amount"}, -3, "", Null, {}, Null), TRUE>>}

\* C23: a get, update or delete of a transaction by its id succeeds exactly
\* when the caller now owns the transaction's wallet, whoever created the
\* transaction, and is NotFound otherwise; on the nested route it succeeds
\* exactly when the caller owns the wallet of the path and the transaction
\* is stored under that wallet, and is NotFound otherwise.
C23_AccessThroughWalletOwner ==
    \A u \in users : \A t \in 1..(ids.tx + 1) :
        LET owned == t \in DOMAIN txs /\ wallets[txs[t].wallet].user = u
            Outcome(r, success) ==
                r.status = (IF owned THEN success ELSE "NotFound")
        IN /\ Outcome(TransactionDetail_retrieve(DB, u, t), "OK")
           /\ Outcome(TransactionDetail_destroy(DB, u, t), "NoContent")
           /\ \A req \in AccessUpdates :
                 Outcome(TransactionDetail_update(DB, u, t, req[1], req[2]), "OK")
           /\ \A w \in 1..(ids.wallet + 1) :
                 LET under == owned /\ txs[t].wallet = w
                     Nested(r, success) ==
                         r.status = (IF under THEN success ELSE "NotFound")
                 IN /\ Nested(WalletTransactionDetail_retrieve(DB, u, w, t), "OK")
                    /\ Nested(WalletTransactionDetail_destroy(DB, u, w, t), "NoContent")
                    /\ \A req \in AccessUpdates :
                          Nested(WalletTransactionDetail_update(DB, u, w, t, req[1], req[2]),
                                 "OK")

\* C23 witness: a transaction whose wallet changed hands after its creator
\* stored it, while the creator and the new owner each own another wallet:
\* the new owner reads it and deletes it, the creator finds nothing, and
\* neither reaches it through the other wallet.
C23_Witness ==
    \E t \in DOMAIN txs : \E x \in DOMAIN wallets :
        LET owner == TxOwner(t)
            creator == txs[t].created_by
        IN /\ creator # owner
           /\ x # txs[t].wallet
           /\ wallets[x].user = owner
           /\ TransactionDetail_retrieve(DB, owner, t).status = "OK"
           /\ TransactionDetail_destroy(DB, owner, t).status = "NoContent"
           /\ TransactionDetail_retrieve(DB, creator, t).status = "NotFound"
           /\ WalletTransactionDetail_retrieve(DB, owner, txs[t].wallet, t).status = "OK"
           /\ WalletTransactionDetail_retrieve(DB, owner, x, t).status = "NotFound"
           /\ WalletTransactionDetail_retrieve(DB, creator, txs[t].wallet, t).status = "NotFound"

\* ---------------------------------- the tags: sets of tags, tag deletes
\* Two registered users; wallets, tags of two names, transactions that carry
\* any set of tags and a category or none, updates that supply tag_ids or
\* leave it out, and the delete of tags.

TagTxFields ==
    {{"note", "amount", "currency"} \cup P : P \in {{"tag_ids"}, {"category_id", "tag_ids"}}}

TagTxPosts ==
    TxBodies(TagTxFields, {5}, {"usd"}, LabelCatIds, SUBSET TagIds, {Null})

\* Full updates that leave tag_ids out, and partial ones that supply it.
TagTxPuts ==
    TxBodies({{"note", "amount", "currency"}}, {5}, {"usd"}, {Null}, {{}}, {Null})

TagTxPatches ==
    TxBodies({{"tag_ids"}}, {5}, {"usd"}, {Null}, SUBSET TagIds, {Null})

NextTags ==
    \/ \E u \in users : \E body \in LabelWalletPosts(u) : CreateWallet(u, body)
    \/ \E u \in users, body \in ListTagPosts : CreateTag(u, body)
    \/ \E u \in users, gid \in TagIds : DeleteTag(u, gid)
    \/ \E u \in users, wid \in WalletIds, body \in TagTxPosts :
          CreateTransactionNested(u, wid, body)
    \/ \E u \in users, wid \in WalletIds, tid \in TxIds, body \in TagTxPuts :
          UpdateTransactionNested(u, wid, tid, body, FALSE)
    \/ \E u \in users, tid \in TxIds, body \in TagTxPatches :
          UpdateTransactionDirect(u, tid, body, TRUE)

SpecTags == Init /\ [][NextTags]_vars

\* C24: the delete of a tag by its owner removes the tag's record and takes
\* the tag out of the tag set of every transaction, which otherwise stays as
\* it was (amount, wallet, category, other tags); nothing else changes; the
\* tag is NotFound afterwards, and its owner can create a tag of its name.
C24_DeleteTagIsHard ==
    \A g \in DOMAIN tags :
        LET u == tags[g].user
            r == UserTagDetail_destroy(DB, u, g)
        IN /\ r.status = "NoContent"
           /\ r.db.tags = Restrict(tags, DOMAIN tags \ {g})
           /\ DOMAIN r.db.txs = DOMAIN txs
           /\ \A t \in DOMAIN txs : r.db.txs[t] = [txs[t] EXCEPT !.tags = @ \ {g}]
           /\ r.db.wallets = wallets
           /\ r.db.cats = cats
           /\ r.db.users = users
           /\ UserTagDetail_retrieve(r.db, u, g).status = "NotFound"
           /\ UserTagList_create(r.db, u, LabelBody({"name"}, tags[g].name, TRUE, FALSE)).status
                = "Created"

\* C24 witness: a tag carried by two transactions, one of which carries
\* another tag and a category too, is deleted by its owner.
C24_Witness ==
    \E g \in DOMAIN tags : \E t1 \in DOMAIN txs : \E t2 \in DOMAIN txs :
        /\ t1 # t2
        /\ g \in txs[t1].tags
        /\ g \in txs[t2].tags
        /\ txs[t1].tags # {g}
        /\ txs[t1].category # Null
        /\ UserTagDetail_destroy(DB, tags[g].user, g).status = "NoContent"
        /\ UserTagDetail_destroy(DB, tags[g].user, g).db.txs[t1].tags = txs[t1].tags \ {g}

\* The wallet updates of the owner claim: full ones and partial ones, each
\* naming any user in its user field, and partial ones without that field.
OwnerUpdates ==
    {<<body, FALSE>> : body \in WalletBodies({WalletFields}, UserIds, {0, 10}, {"usd", "eur"})}
    \cup {<<body, TRUE>> :
             body \in WalletBodies({{"user"}, {"user", "currency"}, {"initial_value"}},
                                   UserIds, {0, 10}, {"usd", "eur"})}

\* C25: no update of a wallet, full or partial, whatever its fields (a user
\* field naming another user included), changes the wallet's owner: the
\* owner who could read the wallet before the update can read it after.
C25_WalletOwnerNeverChanges ==
    \A u \in users : \A w \in OwnWallets(u) : \A req \in OwnerUpdates :
        LET r == WalletDetail_update(DB, u, w, req[1], req[2])
        IN /\ r.db.wallets[w].user = u
           /\ WalletDetail_retrieve(r.db, u, w).status = "OK"

\* The update bodies of the tag claim: a full one (note, amount, currency) or
\* a partial one (nothing else), with tag_ids added or not.
TagUpdate(partial, P, tag_ids) ==
    TxBody((IF partial THEN {} ELSE {"note", "amount", "currency"}) \cup P,
           5, "usd", Null, tag_ids, Null)

\* C26: on both routes, for full and partial updates by the owner: an
\* update that leaves tag_ids out leaves the transaction's tags as they
\* were, and one that supplies tag_ids (the empty list included) leaves the
\* transaction with exactly the tags supplied.
C26_TagsOmittedKeptSuppliedReplace ==
    \A t \in DOMAIN txs : \A partial \in BOOLEAN :
        LET u == TxOwner(t)
            w == txs[t].wallet
            Both(body) == {TransactionDetail_update(DB, u, t, body, partial),
                           WalletTransactionDetail_update(DB, u, w, t, body, partial)}
        IN /\ \A r \in Both(TagUpdate(partial, {}, {})) :
                 r.status = "OK" /\ r.db.txs[t].tags = txs[t].tags
           /\ \A S \in SUBSET {g \in DOMAIN tags : tags[g].user = u} :
                 \A r \in Both(TagUpdate(partial, {"tag_ids"}, S)) :
                     r.status = "OK" /\ r.db.txs[t].tags = S

====
